---- MODULE Spec2Model ----
(***************************************************************************)
(* Tomasulo simulator: the Instruction codec, the ReservationStation       *)
(* record and the Tomasulo engine (step = incrementCyclesPassed; Issue;    *)
(* execute; WriteBack; clock++).                                           *)
(*                                                                         *)
(* The engine object is one record `t`; every method is an operator from   *)
(* engine record to engine record, translated statement by statement.      *)
(* Fields whose name starts with h are history variables: they record      *)
(* which dynamic instruction (identified by the clock at which it was      *)
(* issued) a station holds and which instruction wrote what.  They never   *)
(* influence the program fields.                                           *)
(***************************************************************************)
EXTENDS Integers, Sequences, FiniteSets, TLC

(* ------------------------------------------------------------------ *)
(* Bounds of the model                                                 *)
(* ------------------------------------------------------------------ *)
MaxClock == 22
MaxLat == 2
\* calls of the set-up methods made in one run
MaxCalls == 2

(* ------------------------------------------------------------------ *)
(* JavaScript values                                                   *)
(* ------------------------------------------------------------------ *)
\* `number | null`: null is <<>>, the number v is <<v>>
Null == <<>>
Some(v) == <<v>>
\* ToNumber: null takes part in arithmetic as 0
Num(x) == IF x = Null THEN 0 ELSE x[1]
\* `string | null` tags: null
NullTag == "null"
\* RegisterStatus sentinel (the number 0 of the source)
Committed == "0"

MemoryLength == 65536
Uint16(x) == x % 65536

RECURSIVE BitAnd(_, _)
\* a & b for a, b >= 0
BitAnd(a, b) ==
    IF a = 0 \/ b = 0 THEN 0
    ELSE (a % 2) * (b % 2) + 2 * BitAnd(a \div 2, b \div 2)

\* ~x on 32-bit two's complement
BitNot(x) == -x - 1

\* a | b on 32-bit two's complement integers
BitOr(a, b) ==
    IF a >= 0 /\ b >= 0 THEN a + b - BitAnd(a, b)
    ELSE IF a < 0 /\ b < 0 THEN BitNot(BitAnd(BitNot(a), BitNot(b)))
    ELSE IF a < 0 THEN BitNot(BitNot(a) - BitAnd(BitNot(a), b))
    ELSE BitNot(BitNot(b) - BitAnd(BitNot(b), a))

\* x << n and x >> n for x >= 0
Shl(x, n) == x * (2 ^ n)
Shr(x, n) == x \div (2 ^ n)

(* ------------------------------------------------------------------ *)
(* enum OpCode                                                         *)
(* ------------------------------------------------------------------ *)
LOAD == 0
STORE == 1
BEQ == 2
CALL == 3
RET == 4
ADD == 5
SUB == 6
NOR == 7
MUL == 8

(* ------------------------------------------------------------------ *)
(* class Instruction                                                   *)
(* ------------------------------------------------------------------ *)
\* a field that was never set is Null
Instruction(opcode, rA, rB, rC, offset, label) ==
    [opcode |-> opcode, rA |-> rA, rB |-> rB, rC |-> rC,
     offset |-> offset, label |-> label]

\* the register check accepting 8
validateRegisterUpTo8(reg) == ~(reg < 0 \/ reg > 8)

\* TRUE when validateRegister returns, FALSE when it throws
validateRegister(reg) == ~(reg < 0 \/ reg > 7)
validOffset(value) == ~(value < -16 \/ value > 15)
validLabel(label) == ~(label < -64 \/ label > 63)

\* `x ?? 0`
OrZero(x) == IF x = Null THEN 0 ELSE x[1]

\* encode placing rA one bit too low
encodeShifted(i) ==
    LET op == Shl(BitAnd(i.opcode, 15), 12)
        body ==
          IF i.opcode = CALL THEN
            LET l0 == OrZero(i.label)
                l1 == IF l0 < 0 THEN BitAnd(l0 + 128, 127) ELSE l0
            IN  BitAnd(l1, 127)
          ELSE IF i.opcode \in {LOAD, STORE, BEQ} THEN
            LET o0 == OrZero(i.offset)
                o1 == IF o0 < 0 THEN BitAnd(o0 + 32, 31) ELSE o0
            IN  BitOr(BitOr(Shl(BitAnd(OrZero(i.rA), 7), 8),
                            Shl(BitAnd(OrZero(i.rB), 7), 6)),
                      BitAnd(o1, 31))
          ELSE
            BitOr(BitOr(Shl(BitAnd(OrZero(i.rA), 7), 8),
                        Shl(BitAnd(OrZero(i.rB), 7), 6)),
                  Shl(BitAnd(OrZero(i.rC), 7), 3))
    IN  BitAnd(BitOr(op, body), 65535)

encode(i) ==
    LET op == Shl(BitAnd(i.opcode, 15), 12)
        body ==
          IF i.opcode = CALL THEN
            LET l0 == OrZero(i.label)
                l1 == IF l0 < 0 THEN BitAnd(l0 + 128, 127) ELSE l0
            IN  BitAnd(l1, 127)
          ELSE IF i.opcode \in {LOAD, STORE, BEQ} THEN
            LET o0 == OrZero(i.offset)
                o1 == IF o0 < 0 THEN BitAnd(o0 + 32, 31) ELSE o0
            IN  BitOr(BitOr(Shl(BitAnd(OrZero(i.rA), 7), 9),
                            Shl(BitAnd(OrZero(i.rB), 7), 6)),
                      BitAnd(o1, 31))
          ELSE
            BitOr(BitOr(Shl(BitAnd(OrZero(i.rA), 7), 9),
                        Shl(BitAnd(OrZero(i.rB), 7), 6)),
                  Shl(BitAnd(OrZero(i.rC), 7), 3))
    IN  BitAnd(BitOr(op, body), 65535)

\* decode without sign extension
decodeUnsigned(encoded) ==
    LET opcode == BitAnd(Shr(encoded, 12), 15)
    IN  IF opcode = CALL THEN
          LET l0 == BitAnd(encoded, 127)
              \* 0xffffff80 is -128 as a 32-bit integer
              l1 == l0
          IN  Instruction(opcode, Null, Null, Null, Null, Some(l1))
        ELSE IF opcode \in {LOAD, STORE, BEQ} THEN
          LET o0 == BitAnd(encoded, 31)
              \* 0xffffffe0 is -32 as a 32-bit integer
              o1 == o0
          IN  Instruction(opcode, Some(BitAnd(Shr(encoded, 9), 7)),
                          Some(BitAnd(Shr(encoded, 6), 7)), Null, Some(o1), Null)
        ELSE
          Instruction(opcode, Some(BitAnd(Shr(encoded, 9), 7)),
                      Some(BitAnd(Shr(encoded, 6), 7)),
                      Some(BitAnd(Shr(encoded, 3), 7)), Null, Null)

decode(encoded) ==
    LET opcode == BitAnd(Shr(encoded, 12), 15)
    IN  IF opcode = CALL THEN
          LET l0 == BitAnd(encoded, 127)
              \* 0xffffff80 is -128 as a 32-bit integer
              l1 == IF BitAnd(l0, 64) # 0 THEN BitOr(l0, -128) ELSE l0
          IN  Instruction(opcode, Null, Null, Null, Null, Some(l1))
        ELSE IF opcode \in {LOAD, STORE, BEQ} THEN
          LET o0 == BitAnd(encoded, 31)
              \* 0xffffffe0 is -32 as a 32-bit integer
              o1 == IF BitAnd(o0, 16) # 0 THEN BitOr(o0, -32) ELSE o0
          IN  Instruction(opcode, Some(BitAnd(Shr(encoded, 9), 7)),
                          Some(BitAnd(Shr(encoded, 6), 7)), Null, Some(o1), Null)
        ELSE
          Instruction(opcode, Some(BitAnd(Shr(encoded, 9), 7)),
                      Some(BitAnd(Shr(encoded, 6), 7)),
                      Some(BitAnd(Shr(encoded, 3), 7)), Null, Null)


\* the setters: validate, then assign; the instruction is unchanged on a throw
setrA(i, rA) == IF validateRegister(rA) THEN [i EXCEPT !.rA = Some(rA)] ELSE i
setrB(i, rB) == IF validateRegister(rB) THEN [i EXCEPT !.rB = Some(rB)] ELSE i
setrC(i, rC) == IF validateRegister(rC) THEN [i EXCEPT !.rC = Some(rC)] ELSE i
setOffset(i, value) == IF validOffset(value) THEN [i EXCEPT !.offset = Some(value)] ELSE i
setLabel(i, label) == IF validLabel(label) THEN [i EXCEPT !.label = Some(label)] ELSE i

Fields == {"rA", "rB", "rC", "offset", "label"}

\* the setter of field f called with v
callSetter(i, f, v) ==
    IF f = "rA" THEN setrA(i, v) ELSE IF f = "rB" THEN setrB(i, v)
    ELSE IF f = "rC" THEN setrC(i, v) ELSE IF f = "offset" THEN setOffset(i, v)
    ELSE setLabel(i, v)

\* the setter of field f throws when called with v
setterThrows(f, v) ==
    IF f \in {"rA", "rB", "rC"} THEN ~validateRegister(v)
    ELSE IF f = "offset" THEN ~validOffset(v) ELSE ~validLabel(v)

\* `new Instruction(init)` throws: some field of init that is not undefined
\* makes its setter throw
constructorThrows(init) ==
    \E f \in Fields : init[f] # Null /\ setterThrows(f, init[f][1])

(* ------------------------------------------------------------------ *)
(* class ReservationStation                                            *)
(* ------------------------------------------------------------------ *)
ReservationStation(name, unit, cycles_needed, cnAddr, cnMem) ==
    [name |-> name, unit |-> unit, busy |-> FALSE, Operation |-> NullTag,
     Vj |-> Null, Vk |-> Null, Qj |-> NullTag, Qk |-> NullTag,
     instruction |-> Null, result |-> Null, PC_Original |-> Null, A |-> Null,
     cycles_needed |-> cycles_needed, cycles_passed |-> 0,
     cycles_needed_to_compute_address |-> cnAddr,
     cycles_needed_to_read_write_from_memory |-> cnMem]

(* ------------------------------------------------------------------ *)
(* class Tomasulo: memory and configuration                            *)
(* ------------------------------------------------------------------ *)
\* Memory is a Uint16Array(65536); the model keeps the non-zero words only
MemGet(M, a) == IF a \in DOMAIN M THEN M[a] ELSE 0
MemInRange(a) == a >= 0 /\ a < MemoryLength
\* typed-array store: value taken modulo 2^16, out-of-range index ignored
MemSet(M, a, v) ==
    IF ~MemInRange(a) THEN M
    ELSE [x \in (DOMAIN M \cup {a}) \ (IF Uint16(v) = 0 THEN {a} ELSE {}) |->
            IF x = a THEN Uint16(v) ELSE M[x]]

Regs == 0 .. 7

NoTaken == [beq |-> -1, before |-> <<>>, after |-> <<>>]

\* state after `new Tomasulo()`
Constructor ==
    [Memory |-> [x \in {} |-> 0],
     Registers |-> [r \in Regs |-> 0],
     Instructions |-> <<>>,
     RS |-> <<>>,
     CDB |-> Null,
     RegisterStatus |-> [r \in Regs |-> Committed],
     PC |-> 0,
     IssuedTracker |-> <<>>,
     ExecutedTracker |-> <<>>,
     WriteBackTracker |-> <<>>,
     clock |-> 0,
     isBranchPending |-> FALSE,
     branchMispredictions |-> 0,
     branchInstructions |-> 0,
     IssuedAfterBranch |-> 0,
     isJumpPending |-> FALSE,
     \* history
     hIssueOf |-> <<>>,
     hLastDest |-> [r \in Regs |-> -1],
     hPrevDest |-> [r \in Regs |-> -1],
     hRegWriter |-> [r \in Regs |-> -1],
     hWrittenBack |-> {},
     hCommitted |-> {},
     hSquashed |-> {},
     hLastTaken |-> NoTaken,
     hBroadcasts |-> 0]

\* the methods below return the engine unchanged where the source throws
addInstruction(t, instruction, address) ==
    IF address < 0 \/ address >= MemoryLength THEN t
    ELSE [t EXCEPT !.Instructions = Append(@, instruction),
                   !.Memory = MemSet(@, address, encode(instruction))]

RECURSIVE addInstructionsFrom(_, _, _, _)
addInstructionsFrom(t, instructions, address, index) ==
    IF index > Len(instructions) THEN t
    ELSE IF address + (index - 1) < 0 \/ address + (index - 1) >= MemoryLength THEN t
    ELSE addInstructionsFrom(addInstruction(t, instructions[index], address + (index - 1)),
                             instructions, address, index + 1)

addInstructions(t, instructions, address) ==
    addInstructionsFrom(t, instructions, address, 1)

RECURSIVE addDataFrom(_, _, _, _)
addDataFrom(M, data, address, index) ==
    IF index > Len(data) THEN M
    ELSE addDataFrom(MemSet(M, address + (index - 1), data[index]), data, address, index + 1)

addData(t, data, address) ==
    IF address < 0 \/ address + Len(data) > MemoryLength THEN t
    ELSE [t EXCEPT !.Memory = addDataFrom(@, data, address, 1)]

addStartAddress(t, address) ==
    IF address < 0 \/ address >= MemoryLength THEN t
    ELSE [t EXCEPT !.PC = address]

addReservationStation(t, name, unit, cycles_needed, cnAddr, cnMem) ==
    [t EXCEPT !.RS = Append(@, ReservationStation(name, unit, cycles_needed, cnAddr, cnMem)),
              !.hIssueOf = Append(@, -1)]

\* the loop body without the `cycles_passed > cycles_needed` guard
incrementOneUncapped(rs) ==
    IF ~rs.busy THEN rs
    ELSE IF rs.result # Null /\ rs.cycles_passed = rs.cycles_needed
         THEN [rs EXCEPT !.cycles_passed = @ + 1]
    ELSE IF rs.Qj = NullTag /\ rs.Qk = NullTag
         THEN [rs EXCEPT !.cycles_passed = @ + 1]
    ELSE rs

(* ------------------------------------------------------------------ *)
(* Tomasulo.incrementCyclesPassed                                      *)
(* ------------------------------------------------------------------ *)
incrementOne(rs) ==
    IF ~rs.busy THEN rs
    ELSE IF rs.result # Null /\ rs.cycles_passed = rs.cycles_needed
         THEN [rs EXCEPT !.cycles_passed = @ + 1]
    ELSE IF rs.cycles_passed > rs.cycles_needed THEN rs
    ELSE IF rs.Qj = NullTag /\ rs.Qk = NullTag
         THEN [rs EXCEPT !.cycles_passed = @ + 1]
    ELSE rs

incrementCyclesPassed(t) ==
    [t EXCEPT !.RS = [i \in 1 .. Len(t.RS) |-> incrementOne(t.RS[i])]]

(* ------------------------------------------------------------------ *)
(* Tomasulo.Issue                                                      *)
(* ------------------------------------------------------------------ *)
\* the scan without its `break`: the last free station of the unit is kept
FirstFreeLast(t, unit) ==
    LET S == {i \in 1 .. Len(t.RS) : t.RS[i].busy = FALSE /\ t.RS[i].unit = unit}
    IN  IF S = {} THEN 0 ELSE CHOOSE i \in S : \A j \in S : i >= j

\* `for (const element of this.RS) if (!element.busy && element.unit == unit) {...; break}`
\* index of the station the loop body runs for, 0 when it runs for none
FirstFree(t, unit) ==
    LET S == {i \in 1 .. Len(t.RS) : t.RS[i].busy = FALSE /\ t.RS[i].unit = unit}
    IN  IF S = {} THEN 0 ELSE CHOOSE i \in S : \A j \in S : i <= j

\* value / tag captured for source register r
OperandV(t, r) == IF t.RegisterStatus[r] = Committed THEN Some(t.Registers[r]) ELSE Null
OperandQ(t, r) == IF t.RegisterStatus[r] = Committed THEN NullTag ELSE t.RegisterStatus[r]

IssuedEntry(t, instr, i) == [Instruction |-> instr, clock |-> t.clock, RS |-> i]

\* what every branch of Issue does after filling the station
IssueCommon(t, instr, i) ==
    [t EXCEPT !.IssuedTracker = Append(@, IssuedEntry(t, instr, i)),
              !.PC = @ + 1,
              !.IssuedAfterBranch = IF t.isBranchPending THEN @ + 1 ELSE @,
              !.hIssueOf[i] = t.clock]

\* the tag written for a destination, register 0 included
DestTagUnguarded(t, rA, i) == t.RS[i].name

\* `rA == 0 ? 0 : element.name`
DestTag(t, rA, i) == IF rA = 0 THEN Committed ELSE t.RS[i].name

\* issue clock of the writer of register r issued last before the one going
\* into station i, when a station other than i still holds it; -1 otherwise
InFlightWriter(t, r, i) ==
    IF \E j \in 1 .. Len(t.RS) :
          j # i /\ t.RS[j].busy /\ t.hIssueOf[j] = t.hLastDest[r]
    THEN t.hLastDest[r] ELSE -1

\* the destination renamed to the station's Operation instead of its name
SetDestToOperation(t, rA, i) ==
    [t EXCEPT !.RegisterStatus[rA] = IF rA = 0 THEN Committed ELSE t.RS[i].Operation,
              !.hLastDest[rA] = IF rA = 0 THEN @ ELSE t.clock,
              !.hPrevDest[rA] = IF rA = 0 THEN @ ELSE InFlightWriter(t, rA, i)]

\* `RegisterStatus[rA] = rA == 0 ? 0 : element.name`
SetDest(t, rA, i) ==
    [t EXCEPT !.RegisterStatus[rA] = DestTag(t, rA, i),
              !.hLastDest[rA] = IF rA = 0 THEN @ ELSE t.clock,
              !.hPrevDest[rA] = IF rA = 0 THEN @ ELSE InFlightWriter(t, rA, i)]

IssueLOAD(t, instr, i) ==
    LET rA == instr.rA[1]
        rB == instr.rB[1]
        el == [t.RS[i] EXCEPT !.Vj = OperandV(t, rB), !.Qj = OperandQ(t, rB),
                              !.busy = TRUE, !.Operation = "LOAD",
                              !.instruction = Some(instr),
                              !.PC_Original = Some(t.PC),
                              !.A = instr.offset]
    IN  IssueCommon(SetDest([t EXCEPT !.RS[i] = el], rA, i), instr, i)

IssueSTORE(t, instr, i) ==
    LET rA == instr.rA[1]
        rB == instr.rB[1]
        el == [t.RS[i] EXCEPT !.Vj = OperandV(t, rB), !.Qj = OperandQ(t, rB),
                              !.busy = TRUE, !.A = instr.offset,
                              !.Vk = OperandV(t, rA), !.Qk = OperandQ(t, rA),
                              !.instruction = Some(instr),
                              !.PC_Original = Some(t.PC),
                              !.Operation = "STORE"]
    IN  IssueCommon([t EXCEPT !.RS[i] = el], instr, i)

\* unit looked for by the ADD/SUB/NOR/MUL branch
AluUnit(opcode) ==
    IF opcode = MUL THEN MUL ELSE IF opcode = NOR THEN NOR ELSE ADD

AluOperation(opcode) ==
    IF opcode = ADD THEN "ADD" ELSE IF opcode = SUB THEN "SUB"
    ELSE IF opcode = NOR THEN "NOR" ELSE "MUL"

IssueALU(t, instr, i) ==
    LET rA == instr.rA[1]
        rB == instr.rB[1]
        rC == instr.rC[1]
        el == [t.RS[i] EXCEPT !.Vj = OperandV(t, rB), !.Qj = OperandQ(t, rB),
                              !.Vk = OperandV(t, rC), !.Qk = OperandQ(t, rC),
                              !.busy = TRUE, !.instruction = Some(instr),
                              !.PC_Original = Some(t.PC),
                              !.Operation = AluOperation(instr.opcode)]
    IN  IssueCommon(SetDest([t EXCEPT !.RS[i] = el], rA, i), instr, i)

IssueBEQ(t, instr, i) ==
    LET rA == instr.rA[1]
        rB == instr.rB[1]
        el == [t.RS[i] EXCEPT !.Vj = OperandV(t, rA), !.Qj = OperandQ(t, rA),
                              !.Vk = OperandV(t, rB), !.Qk = OperandQ(t, rB),
                              !.A = instr.offset, !.Operation = "BEQ",
                              !.busy = TRUE, !.instruction = Some(instr),
                              !.PC_Original = Some(t.PC)]
        t1 == IssueCommon([t EXCEPT !.RS[i] = el], instr, i)
    IN  [t1 EXCEPT !.isBranchPending = TRUE, !.branchInstructions = @ + 1]

IssueCALL(t, instr, i) ==
    LET el == [t.RS[i] EXCEPT !.busy = TRUE,
                              !.A = IF instr.opcode = CALL THEN instr.label
                                    ELSE Some(t.Registers[1]),
                              !.Operation = IF instr.opcode = CALL THEN "CALL" ELSE "RET",
                              !.instruction = Some(instr),
                              !.PC_Original = Some(t.PC)]
        t1 == IssueCommon([t EXCEPT !.RS[i] = el], instr, i)
    IN  [t1 EXCEPT !.isJumpPending = TRUE]

\* Issue after its first guard.  Instruction.decode never throws, so the
\* catch block of Issue is dead code
IssueFetch(t) ==
    IF t.PC < 0 \/ t.PC >= MemoryLength THEN t
    ELSE IF MemGet(t.Memory, t.PC) = 0 THEN t
    ELSE
      LET instr == decode(MemGet(t.Memory, t.PC))
          op == instr.opcode
          unit == IF op = LOAD THEN LOAD
                  ELSE IF op = STORE THEN STORE
                  ELSE IF op \in {ADD, SUB, NOR, MUL} THEN AluUnit(op)
                  ELSE IF op = BEQ THEN BEQ
                  ELSE IF op \in {CALL, RET} THEN CALL
                  ELSE -1
          i == IF unit = -1 THEN 0 ELSE FirstFree(t, unit)
      IN  IF i = 0 THEN t
          ELSE IF op = LOAD THEN IssueLOAD(t, instr, i)
          ELSE IF op = STORE THEN IssueSTORE(t, instr, i)
          ELSE IF op = BEQ THEN IssueBEQ(t, instr, i)
          ELSE IF op \in {CALL, RET} THEN IssueCALL(t, instr, i)
          ELSE IssueALU(t, instr, i)

\* Issue that goes on while a jump is pending
IssueIgnoringJump(t) == IssueFetch(t)

Issue(t) == IF t.isJumpPending THEN t ELSE IssueFetch(t)

(* ------------------------------------------------------------------ *)
(* Tomasulo.getLatestIssueClock                                        *)
(* ------------------------------------------------------------------ *)
Infinity == 1000000000

getLatestIssueClock(t, i) ==
    LET entries == {k \in 1 .. Len(t.IssuedTracker) : t.IssuedTracker[k].RS = i}
    IN  IF entries = {} THEN Infinity
        ELSE CHOOSE c \in {t.IssuedTracker[k].clock : k \in entries} :
               \A k \in entries : t.IssuedTracker[k].clock <= c

(* ------------------------------------------------------------------ *)
(* Tomasulo.execute                                                    *)
(* ------------------------------------------------------------------ *)
\* the block "Now clear all the fields" of execute
Release(el) ==
    [el EXCEPT !.busy = FALSE, !.Qj = NullTag, !.Qk = NullTag, !.Vj = Null,
               !.Vk = Null, !.A = Null, !.result = Null, !.Operation = NullTag,
               !.instruction = Null, !.PC_Original = Null, !.cycles_passed = 0]

ExecutedEntry(t, i) ==
    [Instruction |-> t.RS[i].instruction[1], clock |-> t.clock, RS |-> i]

\* `rsCopy`: a fresh ReservationStation carrying the saved PC_Original
WriteBackEntry(t, instr, i) ==
    [Instruction |-> instr, clock |-> t.clock,
     RS |-> [name |-> t.RS[i].name, unit |-> t.RS[i].unit,
             PC_Original |-> t.RS[i].PC_Original]]

\* address phase shared by LOAD and STORE: `element.A = element.Vj! + element.A!`
AddressPhase(t, i) ==
    LET el == t.RS[i]
    IN  IF el.busy = TRUE
           /\ el.cycles_passed = el.cycles_needed_to_compute_address
           /\ t.isBranchPending = FALSE
        THEN [t EXCEPT !.RS[i].A = Some(Num(el.Vj) + Num(el.A))]
        ELSE t

\* hazard loop of a LOAD: an older busy STORE with the same A
LoadHazard(t, i) ==
    \E j \in 1 .. Len(t.RS) :
        /\ t.RS[j].unit = STORE
        /\ t.RS[j].busy = TRUE
        /\ t.RS[j].A = t.RS[i].A
        /\ getLatestIssueClock(t, j) < getLatestIssueClock(t, i)

\* hazard loop of a STORE: an older busy LOAD or STORE with the same A
StoreHazard(t, i) ==
    \E j \in 1 .. Len(t.RS) :
        /\ t.RS[j].unit \in {LOAD, STORE}
        /\ t.RS[j].busy = TRUE
        /\ t.RS[j].A = t.RS[i].A
        /\ getLatestIssueClock(t, j) < getLatestIssueClock(t, i)

\* `this.Memory[element.A!]` read: undefined (here Null) outside the array
MemRead(t, a) == IF MemInRange(a) THEN Some(MemGet(t.Memory, a)) ELSE Null

ExecLOAD(t, i) ==
    LET t1 == AddressPhase(t, i)
        el == t1.RS[i]
    IN  IF el.busy = TRUE /\ el.cycles_passed = el.cycles_needed
           /\ t1.isBranchPending = FALSE
        THEN IF LoadHazard(t1, i)
             THEN [t1 EXCEPT !.RS[i].cycles_passed = el.cycles_needed - 1]
             ELSE [t1 EXCEPT !.RS[i].result = MemRead(t1, Num(el.A)),
                             !.ExecutedTracker = Append(@, ExecutedEntry(t1, i))]
        ELSE t1

\* STORE leaving its station busy after the write
ExecSTOREKeepBusy(t, i) ==
    LET t1 == AddressPhase(t, i)
        el == t1.RS[i]
    IN  IF el.busy = TRUE /\ el.cycles_passed = el.cycles_needed
           /\ t1.isBranchPending = FALSE
        THEN IF StoreHazard(t1, i)
             THEN [t1 EXCEPT !.RS[i].cycles_passed = el.cycles_needed - 1]
             ELSE [t1 EXCEPT
                     !.Memory = MemSet(@, Num(el.A), Num(el.Vk)),
                     !.ExecutedTracker = Append(@, ExecutedEntry(t1, i)),
                     !.WriteBackTracker =
                         Append(@, WriteBackEntry(t1, el.instruction[1], i)),
                     !.RS[i] = el,
                     !.hCommitted = IF MemInRange(Num(el.A))
                                    THEN @ \cup {t1.hIssueOf[i]} ELSE @]
        ELSE t1

ExecSTORE(t, i) ==
    LET t1 == AddressPhase(t, i)
        el == t1.RS[i]
    IN  IF el.busy = TRUE /\ el.cycles_passed = el.cycles_needed
           /\ t1.isBranchPending = FALSE
        THEN IF StoreHazard(t1, i)
             THEN [t1 EXCEPT !.RS[i].cycles_passed = el.cycles_needed - 1]
             ELSE [t1 EXCEPT
                     !.Memory = MemSet(@, Num(el.A), Num(el.Vk)),
                     !.ExecutedTracker = Append(@, ExecutedEntry(t1, i)),
                     !.WriteBackTracker =
                         Append(@, WriteBackEntry(t1, el.instruction[1], i)),
                     !.RS[i] = Release(el),
                     !.hCommitted = IF MemInRange(Num(el.A))
                                    THEN @ \cup {t1.hIssueOf[i]} ELSE @]
        ELSE t1

\* the squash loop of a taken BEQ
Squash(rs, pc) ==
    IF rs.PC_Original # Null /\ rs.PC_Original[1] > pc
    THEN [rs EXCEPT !.busy = FALSE, !.result = Null, !.instruction = Null,
                    !.Qj = NullTag, !.Qk = NullTag, !.Vj = Null, !.Vk = Null]
    ELSE rs

\* `IssuedTracker.splice(length - IssuedAfterBranch)`: keeps the first
\* length - IssuedAfterBranch entries
SpliceTail(tracker, n) == SubSeq(tracker, 1, Len(tracker) - n)

\* the taken branch redirecting to originalPC + offset
BranchTakenOffByOne(t, i) ==
    LET el == t.RS[i]
        pc == el.PC_Original[1]
        kept == SpliceTail(t.IssuedTracker, t.IssuedAfterBranch)
    IN  [t EXCEPT !.PC = Num(el.A) + pc,
                  !.isBranchPending = FALSE,
                  !.branchMispredictions = @ + 1,
                  !.IssuedTracker = kept,
                  !.IssuedAfterBranch = 0,
                  !.RS = [j \in 1 .. Len(t.RS) |-> Squash(t.RS[j], pc)],
                  !.hSquashed = @ \cup ((t.hIssueOf[i] + 1) .. t.clock),
                  !.hLastTaken = [beq |-> t.hIssueOf[i],
                                  before |-> t.IssuedTracker, after |-> kept]]

BranchTaken(t, i) ==
    LET el == t.RS[i]
        pc == el.PC_Original[1]
        kept == SpliceTail(t.IssuedTracker, t.IssuedAfterBranch)
    IN  [t EXCEPT !.PC = Num(el.A) + pc + 1,
                  !.isBranchPending = FALSE,
                  !.branchMispredictions = @ + 1,
                  !.IssuedTracker = kept,
                  !.IssuedAfterBranch = 0,
                  !.RS = [j \in 1 .. Len(t.RS) |-> Squash(t.RS[j], pc)],
                  !.hSquashed = @ \cup ((t.hIssueOf[i] + 1) .. t.clock),
                  !.hLastTaken = [beq |-> t.hIssueOf[i],
                                  before |-> t.IssuedTracker, after |-> kept]]

BranchNotTaken(t, i) ==
    [t EXCEPT !.PC = t.RS[i].PC_Original[1] + 1, !.isBranchPending = FALSE]

ExecBEQ(t, i) ==
    LET el == t.RS[i]
    IN  IF el.busy = TRUE /\ el.cycles_passed = el.cycles_needed
        THEN LET t1 == IF el.Vj = el.Vk THEN BranchTaken(t, i)
                       ELSE BranchNotTaken(t, i)
             IN  [t1 EXCEPT
                     !.ExecutedTracker = Append(@, ExecutedEntry(t, i)),
                     !.WriteBackTracker =
                         Append(@, WriteBackEntry(t, el.instruction[1], i)),
                     !.RS[i] = Release(el)]
        ELSE t

\* CALL linking to its own address
ExecCALLLinkOffByOne(t, i) ==
    LET el == t.RS[i]
    IN  IF el.busy = TRUE /\ el.cycles_passed = el.cycles_needed
           /\ t.isBranchPending = FALSE
        THEN LET t1 == IF el.Operation = "CALL"
                       THEN [t EXCEPT !.Registers[1] = Uint16(el.PC_Original[1]),
                                      !.PC = Num(el.A),
                                      !.isJumpPending = FALSE,
                                      !.hCommitted = @ \cup {t.hIssueOf[i]}]
                       ELSE IF el.Operation = "RET"
                       THEN [t EXCEPT !.PC = Num(el.A), !.isJumpPending = FALSE]
                       ELSE t
             IN  [t1 EXCEPT
                     !.ExecutedTracker = Append(@, ExecutedEntry(t, i)),
                     !.WriteBackTracker =
                         Append(@, WriteBackEntry(t, el.instruction[1], i)),
                     !.RS[i] = Release(el)]
        ELSE t

ExecCALL(t, i) ==
    LET el == t.RS[i]
    IN  IF el.busy = TRUE /\ el.cycles_passed = el.cycles_needed
           /\ t.isBranchPending = FALSE
        THEN LET t1 == IF el.Operation = "CALL"
                       THEN [t EXCEPT !.Registers[1] = Uint16(el.PC_Original[1] + 1),
                                      !.PC = Num(el.A),
                                      !.isJumpPending = FALSE,
                                      !.hCommitted = @ \cup {t.hIssueOf[i]}]
                       ELSE IF el.Operation = "RET"
                       THEN [t EXCEPT !.PC = Num(el.A), !.isJumpPending = FALSE]
                       ELSE t
             IN  [t1 EXCEPT
                     !.ExecutedTracker = Append(@, ExecutedEntry(t, i)),
                     !.WriteBackTracker =
                         Append(@, WriteBackEntry(t, el.instruction[1], i)),
                     !.RS[i] = Release(el)]
        ELSE t

\* MUL computed as an addition
AluResultMulAsAdd(el) ==
    IF el.unit = ADD THEN
        IF el.Operation = "ADD" THEN Some(Num(el.Vj) + Num(el.Vk))
        ELSE IF el.Operation = "SUB" THEN Some(Num(el.Vj) - Num(el.Vk))
        ELSE el.result
    ELSE IF el.unit = NOR THEN Some(BitNot(BitOr(Num(el.Vj), Num(el.Vk))))
    ELSE Some(Num(el.Vj) + Num(el.Vk))

\* result of an ADD-unit, NOR-unit or MUL-unit station
AluResult(el) ==
    IF el.unit = ADD THEN
        IF el.Operation = "ADD" THEN Some(Num(el.Vj) + Num(el.Vk))
        ELSE IF el.Operation = "SUB" THEN Some(Num(el.Vj) - Num(el.Vk))
        ELSE el.result
    ELSE IF el.unit = NOR THEN Some(BitNot(BitOr(Num(el.Vj), Num(el.Vk))))
    ELSE Some(Num(el.Vj) * Num(el.Vk))

ExecALU(t, i) ==
    LET el == t.RS[i]
    IN  IF el.busy = TRUE /\ el.cycles_passed = el.cycles_needed
           /\ t.isBranchPending = FALSE
        THEN [t EXCEPT !.RS[i].result = AluResult(el),
                       !.ExecutedTracker = Append(@, ExecutedEntry(t, i))]
        ELSE t

\* body of `for (const element of this.RS)` for the station at index i
ExecOne(t, i) ==
    LET unit == t.RS[i].unit
    IN  IF unit = LOAD THEN ExecLOAD(t, i)
        ELSE IF unit = STORE THEN ExecSTORE(t, i)
        ELSE IF unit = BEQ THEN ExecBEQ(t, i)
        ELSE IF unit = CALL THEN ExecCALL(t, i)
        ELSE IF unit \in {ADD, NOR, MUL} THEN ExecALU(t, i)
        ELSE t

RECURSIVE ExecUpTo(_, _)
\* the engine after the loop has handled stations 1 .. n
ExecUpTo(t, n) == IF n = 0 THEN t ELSE ExecOne(ExecUpTo(t, n - 1), n)

execute(t) == ExecUpTo(t, Len(t.RS))

(* ------------------------------------------------------------------ *)
(* Tomasulo.WriteBack                                                  *)
(* ------------------------------------------------------------------ *)
Producers == {LOAD, ADD, NOR, MUL}

\* condition of the outer `if` for the IssuedTracker entry at index k
WriteBackReady(t, k) ==
    LET rs == t.RS[t.IssuedTracker[k].RS]
    IN  /\ rs.result # Null
        /\ rs.cycles_passed > rs.cycles_needed
        /\ t.isBranchPending = FALSE
        /\ t.CDB = Null

\* the register loop: the first register whose status names the station, 8 if none
FirstNamed(t, name) ==
    LET S == {r \in Regs : t.RegisterStatus[r] = name}
    IN  IF S = {} THEN 8 ELSE CHOOSE r \in S : \A q \in S : r <= q

\* the station loop forgetting to clear the tags
CaptureKeepingTag(rs, name, cdb) ==
    LET r1 == IF rs.Qj = name THEN [rs EXCEPT !.Vj = cdb] ELSE rs
    IN  IF r1.Qk = name THEN [r1 EXCEPT !.Vk = cdb] ELSE r1

\* the station loop: every Qj / Qk naming the station takes the CDB value
Capture(rs, name, cdb) ==
    LET r1 == IF rs.Qj = name THEN [rs EXCEPT !.Vj = cdb, !.Qj = NullTag] ELSE rs
    IN  IF r1.Qk = name THEN [r1 EXCEPT !.Vk = cdb, !.Qk = NullTag] ELSE r1

\* the body of the inner `if`, up to its `break`
Broadcast(t, k) ==
    LET e == t.IssuedTracker[k]
        i == e.RS
        rs == t.RS[i]
        cdb == rs.result
        r == FirstNamed(t, rs.name)
        t1 == IF r = 8 THEN t
              ELSE [t EXCEPT !.Registers[r] = IF r = 0 THEN 0 ELSE Uint16(cdb[1]),
                             !.RegisterStatus[r] = Committed,
                             !.hRegWriter[r] = IF r = 0 THEN @ ELSE t.hIssueOf[i],
                             !.hCommitted = IF r = 0 THEN @ ELSE @ \cup {t.hIssueOf[i]}]
        t2 == [t1 EXCEPT !.RS = [j \in 1 .. Len(t.RS) |-> Capture(t.RS[j], rs.name, cdb)]]
    IN  [t2 EXCEPT !.WriteBackTracker = Append(@, WriteBackEntry(t, e.Instruction, i)),
                   !.RS[i] = Release(t2.RS[i]),
                   !.CDB = Null,
                   !.hWrittenBack = @ \cup {t.hIssueOf[i]},
                   !.hBroadcasts = @ + 1]

\* `for (const element of this.IssuedTracker)`: index of the first entry whose
\* station passes both `if`s, 0 when the loop ends without a broadcast
FirstReady(t) ==
    LET S == {k \in 1 .. Len(t.IssuedTracker) :
                 /\ WriteBackReady(t, k)
                 /\ t.RS[t.IssuedTracker[k].RS].unit \in Producers}
    IN  IF S = {} THEN 0 ELSE CHOOSE k \in S : \A j \in S : k <= j

\* the scan going on after its first broadcast instead of breaking
WriteBackTwice(t) ==
    LET t1 == IF FirstReady(t) = 0 THEN t ELSE Broadcast(t, FirstReady(t))
    IN  IF FirstReady(t1) = 0 THEN t1 ELSE Broadcast(t1, FirstReady(t1))

\* the scan stops at its first broadcast (`break`)
WriteBack(t) ==
    IF FirstReady(t) = 0 THEN t ELSE Broadcast(t, FirstReady(t))

(* ------------------------------------------------------------------ *)
(* Tomasulo.step                                                       *)
(* ------------------------------------------------------------------ *)
AfterIncrement(t) == incrementCyclesPassed([t EXCEPT !.hBroadcasts = 0])
AfterIssue(t) == Issue(AfterIncrement(t))
AfterExecute(t) == execute(AfterIssue(t))
AfterWriteBack(t) == WriteBack(AfterExecute(t))

step(t) == [AfterWriteBack(t) EXCEPT !.clock = @ + 1]

\* step() raises to its caller: the four phases contain no throw statement,
\* Issue catches what decode could raise, and an index outside a Uint16Array
\* reads undefined and writes nothing
stepThrows(t) == FALSE

(* ------------------------------------------------------------------ *)
(* Configurations and programs the engine is started with              *)
(* ------------------------------------------------------------------ *)
\* `new Instruction({opcode, rA, rB, offset})` and friends
MemInstr(opcode, rA, rB, offset) ==
    Instruction(opcode, Some(rA), Some(rB), Null, Some(offset), Null)
AluInstr(opcode, rA, rB, rC) ==
    Instruction(opcode, Some(rA), Some(rB), Some(rC), Null, Null)
CallInstr(label) == Instruction(CALL, Null, Null, Null, Null, Some(label))
RetInstr == Instruction(RET, Null, Null, Null, Null, Null)

Station(name, unit, cn, ca, cm) ==
    [name |-> name, unit |-> unit, cn |-> cn, ca |-> ca, cm |-> cm]

RECURSIVE addStations(_, _, _)
addStations(t, sts, k) ==
    IF k > Len(sts) THEN t
    ELSE addStations(addReservationStation(t, sts[k].name, sts[k].unit,
                                           sts[k].cn, sts[k].ca, sts[k].cm),
                     sts, k + 1)

Reverse(sq) == [k \in 1 .. Len(sq) |-> sq[Len(sq) + 1 - k]]

\* registers and data of the simulation script
ScriptRegisters == <<0, 10, 5, 3, 2, 1, 7, 100>>
ScriptData == <<42, 77>>
ScriptDataAddress == 100

\* stations of the simulation script
ScriptStations ==
    << Station("ADD1", ADD, 2, 0, 0), Station("ADD2", ADD, 2, 0, 0),
       Station("MUL1", MUL, 3, 0, 0), Station("LOAD1", LOAD, 2, 1, 1),
       Station("STORE1", STORE, 2, 1, 1) >>

\* program of the simulation script
ScriptProgram ==
    << MemInstr(LOAD, 1, 7, 0), AluInstr(ADD, 2, 1, 3), AluInstr(ADD, 4, 5, 6),
       AluInstr(MUL, 5, 2, 4), MemInstr(STORE, 5, 7, 1) >>

\* two slow BEQ stations in front of a fast STORE station
DeepStations ==
    << Station("BEQ1", BEQ, 3, 0, 0), Station("BEQ2", BEQ, 3, 0, 0),
       Station("STORE1", STORE, 1, 0, 1), Station("ADD1", ADD, 1, 0, 0) >>

\* a STORE behind a taken BEQ that is itself behind a not-taken BEQ
DeepProgram ==
    << MemInstr(BEQ, 0, 1, 3), MemInstr(BEQ, 0, 0, 1), MemInstr(STORE, 6, 7, 0),
       AluInstr(ADD, 4, 5, 6) >>

\* stations in the order of the page's initEngine, latencies chosen
PageStations(ls, beq1, beq2, add, mul) ==
    << Station("Load1", LOAD, ls[1], ls[2], ls[1] - ls[2]),
       Station("Store1", STORE, ls[1], ls[2], ls[1] - ls[2]),
       Station("BEQ1", BEQ, beq1, 0, 0) >>
    \o (IF beq2 = 0 THEN <<>> ELSE << Station("BEQ2", BEQ, beq2, 0, 0) >>)
    \o << Station("CallRet", CALL, 1, 0, 0),
          Station("Add1", ADD, add, 0, 0), Station("Add2", ADD, add, 0, 0),
          Station("Nor1", NOR, 1, 0, 0), Station("Mul1", MUL, mul, 0, 0) >>

Latencies == 1 .. MaxLat
LoadStoreLatencies == {<<cn, ca>> \in Latencies \X {0, 1} : TRUE}

StationConfigs ==
    LET base == {PageStations(ls, b1, b2, a, m) :
                    ls \in LoadStoreLatencies, b1 \in Latencies,
                    b2 \in {0} \cup Latencies, a \in Latencies, m \in Latencies}
    IN  base \cup {Reverse(c) : c \in base}

Programs ==
    [ hazard   |-> << AluInstr(MUL, 5, 2, 4), MemInstr(STORE, 5, 7, 1),
                      MemInstr(LOAD, 1, 7, 1) >>,
      hazard2  |-> << MemInstr(STORE, 6, 7, 1), MemInstr(LOAD, 1, 7, 1),
                      MemInstr(STORE, 3, 7, 1) >>,
      taken    |-> << MemInstr(BEQ, 0, 0, 2), AluInstr(ADD, 1, 2, 3),
                      MemInstr(STORE, 3, 7, 0), AluInstr(ADD, 4, 5, 6) >>,
      late     |-> << AluInstr(ADD, 2, 5, 6), MemInstr(BEQ, 2, 2, 1),
                      AluInstr(SUB, 3, 3, 4), AluInstr(NOR, 4, 5, 6) >>,
      twobeq   |-> << MemInstr(BEQ, 0, 1, 3), AluInstr(MUL, 2, 2, 3),
                      MemInstr(BEQ, 0, 0, 1), MemInstr(STORE, 6, 7, 0),
                      AluInstr(ADD, 4, 5, 6) >>,
      nottaken |-> << MemInstr(BEQ, 0, 1, 1), AluInstr(ADD, 2, 2, 3),
                      MemInstr(BEQ, 0, 0, 1), AluInstr(ADD, 3, 3, 4),
                      AluInstr(ADD, 4, 5, 6) >>,
      beqbeq   |-> << MemInstr(BEQ, 0, 1, 2), MemInstr(BEQ, 0, 0, 1),
                      AluInstr(ADD, 3, 3, 4), AluInstr(ADD, 4, 5, 6) >>,
      zero     |-> << AluInstr(ADD, 0, 5, 6), MemInstr(LOAD, 0, 7, 0),
                      AluInstr(SUB, 2, 0, 1) >>,
      older    |-> << CallInstr(3), MemInstr(BEQ, 0, 0, 0), AluInstr(ADD, 4, 5, 6),
                      AluInstr(MUL, 2, 5, 6), RetInstr >>,
      waw      |-> << AluInstr(MUL, 1, 2, 3), AluInstr(ADD, 1, 4, 5),
                      AluInstr(SUB, 3, 1, 2) >>,
      stale    |-> << MemInstr(BEQ, 0, 0, 1), AluInstr(ADD, 1, 2, 3),
                      AluInstr(MUL, 2, 5, 6), AluInstr(ADD, 2, 4, 4) >>,
      call     |-> << CallInstr(3), AluInstr(ADD, 2, 2, 3), RetInstr,
                      AluInstr(ADD, 4, 5, 6), RetInstr >>,
      speccall |-> << MemInstr(BEQ, 0, 0, 2), CallInstr(4), AluInstr(ADD, 2, 2, 3),
                      AluInstr(ADD, 4, 5, 6) >>,
      latebase |-> << AluInstr(ADD, 7, 7, 5), MemInstr(LOAD, 1, 7, 0),
                      MemInstr(STORE, 6, 7, 1), AluInstr(ADD, 2, 1, 1) >>,
      reuse    |-> << AluInstr(ADD, 1, 5, 6), AluInstr(MUL, 2, 5, 6),
                      AluInstr(ADD, 3, 5, 6), AluInstr(ADD, 4, 5, 6) >> ]

\* the script's stations with other latencies
ScriptStationsWith(add, mul, ls) ==
    << Station("ADD1", ADD, add, 0, 0), Station("ADD2", ADD, add, 0, 0),
       Station("MUL1", MUL, mul, 0, 0),
       Station("LOAD1", LOAD, ls[1], ls[2], ls[1] - ls[2]),
       Station("STORE1", STORE, ls[1], ls[2], ls[1] - ls[2]) >>

\* the script's program on the script's stations, under every latency choice
ScriptScenarios ==
    {[id |-> IF ScriptStationsWith(a, m, ls) = ScriptStations
             THEN "script" ELSE "scriptlat",
      stations |-> ScriptStationsWith(a, m, ls), program |-> ScriptProgram] :
        a \in Latencies, m \in 1 .. MaxLat + 1, ls \in LoadStoreLatencies}

\* the page's two STORE stations beside one LOAD, one ADD and one MUL station
MemStations(ls, mul) ==
    << Station("Load1", LOAD, ls[1], ls[2], ls[1] - ls[2]),
       Station("Store1", STORE, ls[1], ls[2], ls[1] - ls[2]),
       Station("Store2", STORE, ls[1], ls[2], ls[1] - ls[2]),
       Station("Add1", ADD, 1, 0, 0), Station("Mul1", MUL, mul, 0, 0) >>

MemConfigs ==
    LET base == {MemStations(ls, m) : ls \in LoadStoreLatencies, m \in 1 .. MaxLat + 1}
    IN  base \cup {Reverse(c) : c \in base}

\* programs for the two STORE stations
MemPrograms ==
    [ storestore |-> << AluInstr(MUL, 5, 2, 4), MemInstr(STORE, 5, 7, 1),
                        MemInstr(STORE, 3, 7, 1), MemInstr(LOAD, 1, 7, 1) >>,
      negoffset  |-> << AluInstr(ADD, 7, 7, 5), MemInstr(LOAD, 1, 7, -1) >>,
      outside    |-> << MemInstr(STORE, 3, 0, -1), MemInstr(LOAD, 1, 0, -1) >>,
      wrap       |-> << AluInstr(SUB, 2, 0, 1), AluInstr(MUL, 3, 2, 2) >> ]

Scenarios ==
    ScriptScenarios
    \cup {[id |-> "deep", stations |-> DeepStations, program |-> DeepProgram]}
    \cup {[id |-> p, stations |-> c, program |-> MemPrograms[p]] :
             p \in DOMAIN MemPrograms, c \in MemConfigs}
    \cup {[id |-> p, stations |-> c, program |-> Programs[p]] :
             p \in DOMAIN Programs, c \in StationConfigs}

\* the set-up the script and the page perform before the first step
Build(sc) ==
    LET t1 == [Constructor EXCEPT !.Registers = [r \in Regs |-> ScriptRegisters[r + 1]]]
        t2 == addData(t1, ScriptData, ScriptDataAddress)
        t3 == addStations(t2, sc.stations, 1)
        t4 == addInstructions(t3, sc.program, 0)
    IN  addStartAddress(t4, 0)

(* ------------------------------------------------------------------ *)
(* The state machine                                                   *)
(* ------------------------------------------------------------------ *)
VARIABLES Memory, Registers, Instructions, RS, CDB, RegisterStatus, PC,
          IssuedTracker, ExecutedTracker, WriteBackTracker, clock,
          isBranchPending, branchMispredictions, branchInstructions,
          IssuedAfterBranch, isJumpPending,
          hIssueOf, hLastDest, hPrevDest, hRegWriter, hWrittenBack, hCommitted,
          hSquashed, hLastTaken, hBroadcasts, hScenario,
          cInstr, cWord, cDecoded, thrown, call, other

vars == << Memory, Registers, Instructions, RS, CDB, RegisterStatus, PC,
           IssuedTracker, ExecutedTracker, WriteBackTracker, clock,
           isBranchPending, branchMispredictions, branchInstructions,
           IssuedAfterBranch, isJumpPending,
           hIssueOf, hLastDest, hPrevDest, hRegWriter, hWrittenBack, hCommitted,
           hSquashed, hLastTaken, hBroadcasts, hScenario,
           cInstr, cWord, cDecoded, thrown, call, other >>

\* the engine object in the current state
Engine ==
    [Memory |-> Memory, Registers |-> Registers, Instructions |-> Instructions,
     RS |-> RS, CDB |-> CDB, RegisterStatus |-> RegisterStatus, PC |-> PC,
     IssuedTracker |-> IssuedTracker, ExecutedTracker |-> ExecutedTracker,
     WriteBackTracker |-> WriteBackTracker, clock |-> clock,
     isBranchPending |-> isBranchPending,
     branchMispredictions |-> branchMispredictions,
     branchInstructions |-> branchInstructions,
     IssuedAfterBranch |-> IssuedAfterBranch, isJumpPending |-> isJumpPending,
     hIssueOf |-> hIssueOf, hLastDest |-> hLastDest, hPrevDest |-> hPrevDest,
     hRegWriter |-> hRegWriter,
     hWrittenBack |-> hWrittenBack, hCommitted |-> hCommitted,
     hSquashed |-> hSquashed, hLastTaken |-> hLastTaken,
     hBroadcasts |-> hBroadcasts]

\* t is the engine object in the state named by the unprimed variables
IsEngine(t) ==
    /\ Memory = t.Memory /\ Registers = t.Registers
    /\ Instructions = t.Instructions /\ RS = t.RS /\ CDB = t.CDB
    /\ RegisterStatus = t.RegisterStatus /\ PC = t.PC
    /\ IssuedTracker = t.IssuedTracker /\ ExecutedTracker = t.ExecutedTracker
    /\ WriteBackTracker = t.WriteBackTracker /\ clock = t.clock
    /\ isBranchPending = t.isBranchPending
    /\ branchMispredictions = t.branchMispredictions
    /\ branchInstructions = t.branchInstructions
    /\ IssuedAfterBranch = t.IssuedAfterBranch
    /\ isJumpPending = t.isJumpPending
    /\ hIssueOf = t.hIssueOf /\ hLastDest = t.hLastDest
    /\ hPrevDest = t.hPrevDest
    /\ hRegWriter = t.hRegWriter /\ hWrittenBack = t.hWrittenBack
    /\ hCommitted = t.hCommitted /\ hSquashed = t.hSquashed
    /\ hLastTaken = t.hLastTaken /\ hBroadcasts = t.hBroadcasts

\* the caller's side of a call made on an Instruction or on the engine outside
\* step(): the instruction and the word handed to or returned by the codec,
\* whether the last call threw, and which call it was
apiVars == << cInstr, cWord, cDecoded, thrown, call >>

NoCall == [op |-> "none", address |-> 0, length |-> 0, n |-> 0, arg |-> Null]

NoApi ==
    /\ cInstr = Null /\ cWord = Null /\ cDecoded = Null
    /\ thrown = FALSE /\ call = NoCall

\* `other` is a second engine object, Null where only one engine is built
NoOther == other = Null

Init ==
    \E sc \in Scenarios :
        /\ IsEngine(Build(sc))
        /\ hScenario = sc.id
        /\ NoApi
        /\ NoOther

\* t is the engine object in the next state
Becomes(t) ==
    /\ Memory' = t.Memory /\ Registers' = t.Registers
    /\ Instructions' = t.Instructions /\ RS' = t.RS /\ CDB' = t.CDB
    /\ RegisterStatus' = t.RegisterStatus /\ PC' = t.PC
    /\ IssuedTracker' = t.IssuedTracker /\ ExecutedTracker' = t.ExecutedTracker
    /\ WriteBackTracker' = t.WriteBackTracker /\ clock' = t.clock
    /\ isBranchPending' = t.isBranchPending
    /\ branchMispredictions' = t.branchMispredictions
    /\ branchInstructions' = t.branchInstructions
    /\ IssuedAfterBranch' = t.IssuedAfterBranch
    /\ isJumpPending' = t.isJumpPending
    /\ hIssueOf' = t.hIssueOf /\ hLastDest' = t.hLastDest
    /\ hPrevDest' = t.hPrevDest
    /\ hRegWriter' = t.hRegWriter /\ hWrittenBack' = t.hWrittenBack
    /\ hCommitted' = t.hCommitted /\ hSquashed' = t.hSquashed
    /\ hLastTaken' = t.hLastTaken /\ hBroadcasts' = t.hBroadcasts

\* one call of step(); the caller stops after MaxClock calls
Step ==
    /\ clock < MaxClock
    /\ Becomes(step(Engine))
    /\ UNCHANGED << hScenario, apiVars, other >>

Next == Step

Spec == Init /\ [][Next]_vars

\* step() seen through the clock: Step is enabled exactly when Tick is, and
\* every Step is a Tick, so weak fairness of Tick is weak fairness of Step
Tick == clock < MaxClock /\ clock' = clock + 1

\* the caller keeps calling step() until MaxClock calls have been made
FairSpec == Spec /\ WF_clock(Tick)

(* ------------------------------------------------------------------ *)
(* The codec, the constructor and the setters of Instruction           *)
(* ------------------------------------------------------------------ *)
engineVars == << Memory, Registers, Instructions, RS, CDB, RegisterStatus, PC,
                 IssuedTracker, ExecutedTracker, WriteBackTracker, clock,
                 isBranchPending, branchMispredictions, branchInstructions,
                 IssuedAfterBranch, isJumpPending,
                 hIssueOf, hLastDest, hPrevDest, hRegWriter, hWrittenBack,
                 hCommitted, hSquashed, hLastTaken, hBroadcasts, hScenario,
                 other >>

Words == 0 .. 65535
MemOpcodes == {LOAD, STORE, BEQ}
AluOpcodes == {ADD, SUB, NOR, MUL}
Offsets == -16 .. 15
Labels == -64 .. 63

\* the instructions of the nine opcodes, each with the fields the page's
\* parser gives its opcode
ValidInstructions ==
    {MemInstr(op, a, b, o) : op \in MemOpcodes, a \in Regs, b \in Regs, o \in Offsets}
    \cup {AluInstr(op, a, b, c) : op \in AluOpcodes, a \in Regs, b \in Regs, c \in Regs}
    \cup {CallInstr(l) : l \in Labels}
    \cup {RetInstr}

\* instructions the setters are called on
SetterBases == {AluInstr(ADD, 2, 1, 3), MemInstr(LOAD, 1, 7, 0), CallInstr(3)}
\* values handed to the setters: both ranges and their neighbours
SetterValues == -66 .. 65

\* arguments of `new Instruction(init)` around the limits of each field
RegisterInputs == {Null, Some(-1), Some(0), Some(7), Some(8)}
ConstructorInputs ==
    {Instruction(op, a, b, c, o, l) :
        op \in {LOAD, ADD, CALL}, a \in RegisterInputs, b \in RegisterInputs,
        c \in {Null, Some(7), Some(8)},
        o \in {Null, Some(-17), Some(-16), Some(15), Some(16)},
        l \in {Null, Some(-65), Some(-64), Some(63), Some(64)}}

Called(op, v, arg) ==
    [op |-> op, address |-> v, length |-> 0, n |-> call.n + 1, arg |-> arg]

CodecInit ==
    /\ IsEngine(Constructor)
    /\ hScenario = "codec"
    /\ NoOther
    /\ cDecoded = Null /\ thrown = FALSE /\ call = NoCall
    /\ \/ cInstr \in {Some(i) : i \in ValidInstructions} /\ cWord = Null
       \/ cInstr = Null /\ cWord \in {Some(w) : w \in Words}
       \/ cInstr = Null /\ cWord = Null

\* `new Instruction(init)`
CallConstructor ==
    /\ cInstr = Null /\ cWord = Null /\ call = NoCall
    /\ \E init \in ConstructorInputs :
          /\ thrown' = constructorThrows(init)
          /\ cInstr' = IF constructorThrows(init) THEN Null ELSE Some(init)
          /\ call' = Called("new", 0, Some(init))
    /\ UNCHANGED << cWord, cDecoded, engineVars >>

\* one of setrA, setrB, setrC, setOffset, setLabel
CallSetter ==
    /\ cInstr # Null /\ cWord = Null /\ call = NoCall
    /\ cInstr[1] \in SetterBases
    /\ \E f \in Fields : \E v \in SetterValues :
          /\ thrown' = setterThrows(f, v)
          /\ cInstr' = Some(callSetter(cInstr[1], f, v))
          /\ call' = Called(f, v, Null)
    /\ UNCHANGED << cWord, cDecoded, engineVars >>

\* `instruction.encode()`
CallEncode ==
    /\ cInstr # Null /\ cWord = Null /\ call = NoCall
    /\ cWord' = Some(encode(cInstr[1]))
    /\ thrown' = FALSE
    /\ call' = Called("encode", 0, Null)
    /\ UNCHANGED << cInstr, cDecoded, engineVars >>

\* `Instruction.decode(word)`: decode hands its fields to the constructor
CallDecode ==
    /\ cWord # Null /\ cDecoded = Null
    /\ thrown' = constructorThrows(decode(cWord[1]))
    /\ cDecoded' = IF constructorThrows(decode(cWord[1])) THEN Null
                   ELSE Some(decode(cWord[1]))
    /\ call' = Called("decode", cWord[1], Null)
    /\ UNCHANGED << cInstr, cWord, engineVars >>

CodecNext == CallConstructor \/ CallSetter \/ CallEncode \/ CallDecode

CodecSpec == CodecInit /\ [][CodecNext]_vars

(* ------------------------------------------------------------------ *)
(* The set-up methods of Tomasulo called with any address              *)
(* ------------------------------------------------------------------ *)
\* the `throw` of each method
addStartAddressThrows(address) == address < 0 \/ address >= MemoryLength
addInstructionThrows(address) == address < 0 \/ address >= MemoryLength
addDataThrows(data, address) == address < 0 \/ address + Len(data) > MemoryLength
\* forEach throws at the first index whose address is outside memory
addInstructionsThrows(instructions, address) ==
    \E index \in 0 .. Len(instructions) - 1 :
        address + index < 0 \/ address + index >= MemoryLength

\* addresses around both ends of memory
SetupAddresses == {-1, 0, 1, 65534, 65535, 65536}
SetupInstructions == {MemInstr(LOAD, 1, 7, 0), AluInstr(ADD, 2, 1, 3)}
SetupPrograms == {<< MemInstr(LOAD, 1, 7, 0) >>,
                  << MemInstr(LOAD, 1, 7, 0), AluInstr(ADD, 2, 1, 3) >>}
SetupData == {<< 42 >>, << 42, 77 >>}

SetupCalled(op, address, length) ==
    [op |-> op, address |-> address, length |-> length, n |-> call.n + 1,
     arg |-> Null]

SetupInit ==
    /\ IsEngine(Constructor)
    /\ hScenario = "setup"
    /\ NoApi
    /\ NoOther

CallAddStartAddress ==
    /\ call.n < MaxCalls
    /\ \E a \in SetupAddresses :
          /\ Becomes(addStartAddress(Engine, a))
          /\ thrown' = addStartAddressThrows(a)
          /\ call' = SetupCalled("addStartAddress", a, 1)
    /\ UNCHANGED << hScenario, cInstr, cWord, cDecoded, other >>

CallAddInstruction ==
    /\ call.n < MaxCalls
    /\ \E a \in SetupAddresses : \E i \in SetupInstructions :
          /\ Becomes(addInstruction(Engine, i, a))
          /\ thrown' = addInstructionThrows(a)
          /\ call' = SetupCalled("addInstruction", a, 1)
    /\ UNCHANGED << hScenario, cInstr, cWord, cDecoded, other >>

CallAddInstructions ==
    /\ call.n < MaxCalls
    /\ \E a \in SetupAddresses : \E is \in SetupPrograms :
          /\ Becomes(addInstructions(Engine, is, a))
          /\ thrown' = addInstructionsThrows(is, a)
          /\ call' = SetupCalled("addInstructions", a, Len(is))
    /\ UNCHANGED << hScenario, cInstr, cWord, cDecoded, other >>

CallAddData ==
    /\ call.n < MaxCalls
    /\ \E a \in SetupAddresses : \E d \in SetupData :
          /\ Becomes(addData(Engine, d, a))
          /\ thrown' = addDataThrows(d, a)
          /\ call' = SetupCalled("addData", a, Len(d))
    /\ UNCHANGED << hScenario, cInstr, cWord, cDecoded, other >>

SetupNext ==
    CallAddStartAddress \/ CallAddInstruction \/ CallAddInstructions \/ CallAddData

SetupSpec == SetupInit /\ [][SetupNext]_vars

(* ------------------------------------------------------------------ *)
(* Two engines with the same stations added in a different order       *)
(* ------------------------------------------------------------------ *)
\* scenarios whose stations are in the page's or the script's order
OrderedScenarios ==
    {sc \in Scenarios : Reverse(sc.stations) \notin StationConfigs
                           \/ sc.stations[1].unit = LOAD}

PairInit ==
    \E sc \in OrderedScenarios :
        /\ IsEngine(Build(sc))
        /\ other = Build([sc EXCEPT !.stations = Reverse(sc.stations)])
        /\ hScenario = sc.id
        /\ NoApi

\* one call of step() on each engine
PairStep ==
    /\ clock < MaxClock
    /\ Becomes(step(Engine))
    /\ other' = step(other)
    /\ UNCHANGED << hScenario, apiVars >>

PairNext == PairStep

PairSpec == PairInit /\ [][PairNext]_vars

(* ------------------------------------------------------------------ *)
(* The engine of components/tomasulo_engine.ts                          *)
(* ------------------------------------------------------------------ *)
\* its ReservationStation constructor takes three arguments and leaves the
\* two address latencies null
VariantStation(name, unit, cycles_needed) ==
    [ReservationStation(name, unit, cycles_needed, 0, 0) EXCEPT
        !.cycles_needed_to_compute_address = Null,
        !.cycles_needed_to_read_write_from_memory = Null]

\* incrementCyclesPassed: `if (!rs.busy || rs.cycles_passed >= rs.cycles_needed) continue`
VariantIncrementCyclesPassed(t) ==
    [t EXCEPT !.RS = [i \in 1 .. Len(t.RS) |->
        LET rs == t.RS[i]
        IN  IF ~rs.busy \/ rs.cycles_passed >= rs.cycles_needed THEN rs
            ELSE IF rs.Qj = NullTag /\ rs.Qk = NullTag
                 THEN [rs EXCEPT !.cycles_passed = @ + 1]
            ELSE rs]]

\* Issue: no try block, the destination is renamed also when it is register 0,
\* and the BEQ and CALL/RET branches leave PC alone
VariantIssue(t) ==
    IF t.isJumpPending THEN t
    ELSE IF t.PC < 0 \/ t.PC >= MemoryLength THEN t
    ELSE IF MemGet(t.Memory, t.PC) = 0 THEN t
    ELSE
      LET instr == decode(MemGet(t.Memory, t.PC))
          op == instr.opcode
          unit == IF op \in {LOAD, STORE, BEQ} THEN op
                  ELSE IF op \in {ADD, SUB, NOR, MUL} THEN AluUnit(op)
                  ELSE IF op \in {CALL, RET} THEN CALL
                  ELSE -1
          i == IF unit = -1 THEN 0 ELSE FirstFree(t, unit)
          rA == Num(instr.rA)
          rB == Num(instr.rB)
          rC == Num(instr.rC)
          pushed == [t EXCEPT !.IssuedTracker = Append(@, IssuedEntry(t, instr, i)),
                              !.IssuedAfterBranch =
                                  IF t.isBranchPending THEN @ + 1 ELSE @,
                              !.hIssueOf[i] = t.clock]
          held(el) == [el EXCEPT !.busy = TRUE, !.instruction = Some(instr),
                                 !.PC_Original = Some(t.PC)]
      IN  IF i = 0 THEN t
          ELSE IF op = LOAD THEN
              [pushed EXCEPT
                 !.RS[i] = held([@ EXCEPT !.Vj = OperandV(t, rB), !.Qj = OperandQ(t, rB),
                                          !.Operation = "LOAD", !.A = instr.offset]),
                 !.RegisterStatus[rA] = t.RS[i].name,
                 !.PC = @ + 1]
          ELSE IF op = STORE THEN
              [pushed EXCEPT
                 !.RS[i] = held([@ EXCEPT !.Vj = OperandV(t, rB), !.Qj = OperandQ(t, rB),
                                          !.Vk = OperandV(t, rA), !.Qk = OperandQ(t, rA),
                                          !.Operation = "STORE", !.A = instr.offset]),
                 !.PC = @ + 1]
          ELSE IF op = BEQ THEN
              [pushed EXCEPT
                 !.RS[i] = held([@ EXCEPT !.Vj = OperandV(t, rA), !.Qj = OperandQ(t, rA),
                                          !.Vk = OperandV(t, rB), !.Qk = OperandQ(t, rB),
                                          !.Operation = "BEQ", !.A = instr.offset]),
                 !.isBranchPending = TRUE,
                 !.branchInstructions = @ + 1]
          ELSE IF op \in {CALL, RET} THEN
              [pushed EXCEPT
                 !.RS[i] = held([@ EXCEPT
                                   !.A = IF op = CALL THEN instr.label
                                         ELSE Some(t.Registers[1]),
                                   !.Operation = IF op = CALL THEN "CALL" ELSE "RET"]),
                 !.isJumpPending = TRUE]
          ELSE
              [pushed EXCEPT
                 !.RS[i] = held([@ EXCEPT !.Vj = OperandV(t, rB), !.Qj = OperandQ(t, rB),
                                          !.Vk = OperandV(t, rC), !.Qk = OperandQ(t, rC),
                                          !.Operation = AluOperation(op)]),
                 !.RegisterStatus[rA] = t.RS[i].name,
                 !.PC = @ + 1]

\* the fields the STORE, BEQ and CALL/RET branches of execute clear
VariantRelease(el) ==
    [el EXCEPT !.busy = FALSE, !.Qj = NullTag, !.Qk = NullTag,
               !.Vj = Null, !.Vk = Null]

\* body of the loop of execute for the station at index i
VariantExecOne(t, i) ==
    LET el0 == t.RS[i]
        unit == el0.unit
        ca == IF el0.cycles_needed_to_compute_address = Null
              THEN el0.cycles_needed
              ELSE el0.cycles_needed_to_compute_address[1]
        t1 == IF unit \in {LOAD, STORE} /\ el0.busy /\ el0.cycles_passed = ca
                 /\ t.isBranchPending = FALSE
              THEN [t EXCEPT !.RS[i].A = Some(OrZero(el0.Vj) + OrZero(el0.A))]
              ELSE t
        el == t1.RS[i]
        due == el.busy /\ el.cycles_passed = el.cycles_needed
        executed(x) == [x EXCEPT !.ExecutedTracker = Append(@, ExecutedEntry(t1, i))]
        pc == OrZero(el.PC_Original)
    IN  IF unit = BEQ /\ due THEN
            executed(
              IF el.Vj = el.Vk
              THEN [t1 EXCEPT
                      !.PC = OrZero(el.A) + pc + 1,
                      !.isBranchPending = FALSE,
                      !.branchMispredictions = @ + 1,
                      !.IssuedTracker = SpliceTail(@, t1.IssuedAfterBranch),
                      !.IssuedAfterBranch = 0,
                      !.RS = [j \in 1 .. Len(t1.RS) |->
                                LET rs == IF OrZero(t1.RS[j].PC_Original) > pc
                                          THEN [t1.RS[j] EXCEPT
                                                  !.busy = FALSE, !.result = Null,
                                                  !.instruction = Null,
                                                  !.Qj = NullTag, !.Qk = NullTag,
                                                  !.Vj = Null, !.Vk = Null]
                                          ELSE t1.RS[j]
                                IN  IF j = i THEN VariantRelease(rs) ELSE rs]]
              ELSE [t1 EXCEPT !.PC = pc + 1, !.isBranchPending = FALSE,
                              !.RS[i] = VariantRelease(el)])
        ELSE IF ~(due /\ t1.isBranchPending = FALSE) THEN t1
        ELSE IF unit = LOAD THEN
            executed([t1 EXCEPT !.RS[i].result = MemRead(t1, Num(el.A))])
        ELSE IF unit = STORE THEN
            executed([t1 EXCEPT !.Memory = MemSet(@, Num(el.A), Num(el.Vk)),
                                !.RS[i] = VariantRelease(el)])
        ELSE IF unit = CALL THEN
            executed(
              IF el.Operation = "CALL"
              THEN [t1 EXCEPT !.Registers[1] = Uint16(pc + 1), !.PC = Num(el.A),
                              !.isJumpPending = FALSE,
                              !.RS[i] = VariantRelease(el)]
              ELSE IF el.Operation = "RET"
              THEN [t1 EXCEPT !.PC = Num(el.A), !.isJumpPending = FALSE,
                              !.RS[i] = VariantRelease(el)]
              ELSE [t1 EXCEPT !.RS[i] = VariantRelease(el)])
        ELSE IF unit = ADD THEN
            executed([t1 EXCEPT !.RS[i].result =
                IF el.Operation = "ADD" THEN Some(OrZero(el.Vj) + OrZero(el.Vk))
                ELSE IF el.Operation = "SUB" THEN Some(OrZero(el.Vj) - OrZero(el.Vk))
                ELSE @])
        ELSE IF unit = NOR THEN
            executed([t1 EXCEPT !.RS[i].result =
                Some(BitNot(BitOr(OrZero(el.Vj), OrZero(el.Vk))))])
        ELSE IF unit = MUL THEN
            executed([t1 EXCEPT !.RS[i].result = Some(OrZero(el.Vj) * OrZero(el.Vk))])
        ELSE t1

RECURSIVE VariantExecUpTo(_, _)
VariantExecUpTo(t, n) ==
    IF n = 0 THEN t ELSE VariantExecOne(VariantExecUpTo(t, n - 1), n)

VariantExecute(t) == VariantExecUpTo(t, Len(t.RS))

\* WriteBack: the scan and its two tests are those of FirstReady; the
\* broadcast writes register 0 too and clears busy and result only
VariantWriteBack(t) ==
    IF FirstReady(t) = 0 THEN t
    ELSE
      LET e == t.IssuedTracker[FirstReady(t)]
          i == e.RS
          rs == t.RS[i]
          cdb == rs.result
          r == FirstNamed(t, rs.name)
          t1 == IF r = 8 THEN t
                ELSE [t EXCEPT !.Registers[r] = Uint16(cdb[1]),
                               !.RegisterStatus[r] = Committed]
          t2 == [t1 EXCEPT !.RS = [j \in 1 .. Len(t.RS) |->
                                      Capture(t.RS[j], rs.name, cdb)]]
      IN  [t2 EXCEPT !.RS[i] = [t2.RS[i] EXCEPT !.busy = FALSE, !.result = Null],
                     !.CDB = Null,
                     !.WriteBackTracker =
                         Append(@, [Instruction |-> e.Instruction,
                                    clock |-> t.clock, RS |-> i]),
                     !.hBroadcasts = @ + 1]

VariantAfterExecute(t) ==
    VariantExecute(VariantIssue(VariantIncrementCyclesPassed([t EXCEPT !.hBroadcasts = 0])))

\* step of components/tomasulo_engine.ts
VariantStepOf(t) == [VariantWriteBack(VariantAfterExecute(t)) EXCEPT !.clock = @ + 1]

\* stations of initEngine in app/page.tsx, latencies chosen
VariantPageStations(load, add, mul) ==
    << VariantStation("Load1", LOAD, load), VariantStation("Load2", LOAD, load),
       VariantStation("Add1", ADD, add), VariantStation("Add2", ADD, add),
       VariantStation("Mult1", MUL, mul), VariantStation("Mult2", MUL, mul) >>

\* the same with one station of each remaining kind
VariantAllStations(load, add, mul) ==
    VariantPageStations(load, add, mul)
    \o << VariantStation("Store1", STORE, load), VariantStation("BEQ1", BEQ, 1),
          VariantStation("CallRet", CALL, 1), VariantStation("Nor1", NOR, 1) >>

\* the page's latencies are 2, 2 and 10
VariantConfigs ==
    {VariantPageStations(2, 2, 10)}
    \cup {VariantPageStations(l, a, m) : l \in Latencies, a \in Latencies, m \in Latencies}
    \cup {VariantAllStations(l, a, m) : l \in Latencies, a \in Latencies, m \in Latencies}

VariantPrograms ==
    [ chain  |-> << MemInstr(LOAD, 1, 0, 0), AluInstr(ADD, 2, 1, 1),
                    AluInstr(MUL, 3, 2, 2) >>,
      alone  |-> << AluInstr(SUB, 2, 0, 1), AluInstr(NOR, 4, 5, 6) >>,
      store  |-> << MemInstr(STORE, 1, 0, 5), MemInstr(BEQ, 0, 0, 1),
                    AluInstr(ADD, 2, 1, 1), CallInstr(4), RetInstr >> ]

\* initEngine: stations, the instructions from address 0, start address 0
VariantBuild(stations, program) ==
    addStartAddress(
        addInstructions([Constructor EXCEPT
                            !.RS = stations,
                            !.hIssueOf = [k \in 1 .. Len(stations) |-> -1]],
                        program, 0),
        0)

VariantInit ==
    \E p \in DOMAIN VariantPrograms : \E c \in VariantConfigs :
        /\ IsEngine(VariantBuild(c, VariantPrograms[p]))
        /\ hScenario = p
        /\ NoApi
        /\ NoOther

\* one call of step() of the variant
VariantStep ==
    /\ clock < MaxClock
    /\ Becomes(VariantStepOf(Engine))
    /\ UNCHANGED << hScenario, apiVars, other >>

VariantNext == VariantStep

VariantSpec == VariantInit /\ [][VariantNext]_vars

\* the caller keeps pressing Next
VariantFairSpec == VariantSpec /\ WF_clock(Tick)

(* ------------------------------------------------------------------ *)
(* Vocabulary of the properties                                        *)
(* ------------------------------------------------------------------ *)
Stations == 1 .. Len(RS)
NoBusy == \A i \in Stations : RS[i].busy = FALSE

\* base + offset of the LOAD or STORE held by station rs, whose base operand
\* has been captured
EffectiveAddress(rs) == Num(rs.Vj) + Num(rs.instruction[1].offset)

\* station l holds a LOAD that has read memory, station s an older STORE to
\* the same effective address that has not written yet
LoadOvertookStore(l, s) ==
    /\ RS[l].unit = LOAD /\ RS[l].busy /\ RS[l].result # Null
    /\ RS[l].Qj = NullTag
    /\ RS[s].unit = STORE /\ RS[s].busy /\ RS[s].Qj = NullTag
    /\ hIssueOf[s] < hIssueOf[l]
    /\ EffectiveAddress(RS[s]) = EffectiveAddress(RS[l])

\* C1: a LOAD issued after an in-flight STORE to the same effective address
\* does not read memory before the STORE has written it
C1_HazardOrdering ==
    \A l \in Stations : \A s \in Stations : ~LoadOvertookStore(l, s)

\* C2: no instruction issued after a BEQ that resolves taken ever writes a
\* register or a memory word (instructions are named by their issue clock)
C2_SquashedNeverCommits == hCommitted \cap hSquashed = {}

\* C3: the taken BEQ removed from the Issued history exactly the entries of
\* the instructions issued after it
C3_SquashRemovesExactlyYounger ==
    hLastTaken.beq # -1 =>
        hLastTaken.after =
            SelectSeq(hLastTaken.before, LAMBDA e : e.clock <= hLastTaken.beq)

\* the engine just before and just after the execute loop handles station i
\* in the step taken from the current state
BeforeExec(i) == ExecUpTo(AfterIssue(Engine), i - 1)
AfterExec(i) == ExecOne(BeforeExec(i), i)

\* station i is a BEQ station that completes as taken in the coming step
CompletesTaken(i) ==
    LET el == BeforeExec(i).RS[i]
    IN  /\ el.unit = BEQ /\ el.busy
        /\ el.cycles_passed = el.cycles_needed
        /\ el.Vj = el.Vk

C5_OneBroadcastPerStep ==
    LET e == AfterExecute(Engine)
        w == AfterWriteBack(Engine)
        released == {i \in Stations : e.RS[i].busy /\ ~w.RS[i].busy}
        written == {r \in Regs : \/ w.Registers[r] # e.Registers[r]
                                 \/ w.RegisterStatus[r] # e.RegisterStatus[r]}
    IN  /\ CDB = Null
        /\ hBroadcasts <= 1
        /\ w.CDB = Null
        /\ w.hBroadcasts <= 1
        /\ Cardinality(released) <= 1
        /\ \A i \in released : e.RS[i].unit \in Producers
        /\ Cardinality(written) <= 1

\* the last step broadcast one result while another producer was eligible too
C5_Witness ==
    /\ hBroadcasts = 1
    /\ \E i \in Stations :
          /\ RS[i].busy /\ RS[i].unit \in Producers /\ RS[i].result # Null
          /\ RS[i].cycles_passed > RS[i].cycles_needed

ScriptDrained == hScenario = "script" /\ clock > 0 /\ NoBusy

ScriptFinal ==
    /\ Registers[1] = 42 /\ Registers[2] = 45 /\ Registers[4] = 8
    /\ Registers[5] = 360 /\ MemGet(Memory, 101) = 360

\* C6: the script's run reaches a state with no busy station, and in every
\* such state R1=42, R2=45, R4=8, R5=360 and Memory[101]=360
C6_EndToEnd ==
    (hScenario = "script") => (<>ScriptDrained /\ [](ScriptDrained => ScriptFinal))

C6_Witness == ScriptDrained /\ ScriptFinal

\* the instruction issued by the coming step names a destination register
\* other than 0 and the Register-Status entry of that register is its station
IssueRenames ==
    LET a == AfterIncrement(Engine)
        b == AfterIssue(Engine)
    IN  Len(b.IssuedTracker) > Len(a.IssuedTracker) =>
          LET e == b.IssuedTracker[Len(b.IssuedTracker)]
              op == e.Instruction.opcode
          IN  (op \in {LOAD, ADD, SUB, NOR, MUL} /\ e.Instruction.rA[1] # 0) =>
                 b.RegisterStatus[e.Instruction.rA[1]] = b.RS[e.RS].name

\* register r had two writers in flight at once and both have written back
BothWrittenBack(r) ==
    /\ hPrevDest[r] # -1
    /\ hPrevDest[r] \in hWrittenBack
    /\ hLastDest[r] \in hWrittenBack

\* C7: issuing into station S with destination r sets the status of r to S;
\* and once two in-flight writers of r have both written back, r holds the
\* result of the one issued later
C7_LastIssuedWins ==
    /\ IssueRenames
    /\ \A r \in Regs \ {0} :
          BothWrittenBack(r) => hRegWriter[r] = hLastDest[r]

\* C8: every Register-Status entry is the committed sentinel or the name of
\* exactly one reservation station
C8_OneWriterPerRegister ==
    \A r \in Regs :
        \/ RegisterStatus[r] = Committed
        \/ Cardinality({i \in Stations : RS[i].name = RegisterStatus[r]}) = 1

\* two registers have a pending writer
C8_Witness ==
    \E r \in Regs : \E q \in Regs :
        /\ r # q
        /\ RegisterStatus[r] # Committed /\ RegisterStatus[q] # Committed

\* C9: no station has Vj and Qj both set, or Vk and Qk both set
C9_ValueXorTag ==
    \A i \in Stations :
        /\ ~(RS[i].Vj # Null /\ RS[i].Qj # NullTag)
        /\ ~(RS[i].Vk # Null /\ RS[i].Qk # NullTag)

\* a station waits on a tag for one operand and holds a value for the other,
\* after some result has been broadcast
C9_Witness ==
    /\ hWrittenBack # {}
    /\ \E i \in Stations :
          /\ RS[i].busy
          /\ RS[i].Qj # NullTag /\ RS[i].Vj = Null
          /\ RS[i].Vk # Null /\ RS[i].Qk = NullTag

\* C10: in a step that begins with jumpPending, Issue allocates no station,
\* appends nothing to the Issued history and leaves PC and Register-Status
C10_NoIssueWhileJumpPending ==
    isJumpPending =>
        LET a == AfterIncrement(Engine)
            b == AfterIssue(Engine)
        IN  /\ b.RS = a.RS
            /\ b.IssuedTracker = a.IssuedTracker
            /\ b.PC = a.PC
            /\ b.RegisterStatus = a.RegisterStatus

\* a jump is pending and the word at PC could be issued otherwise
C10_Witness ==
    /\ isJumpPending
    /\ IssueFetch(AfterIncrement(Engine)).PC # PC

C12_RegisterZero ==
    /\ RegisterStatus[0] = Committed
    /\ Registers[0] = 0
    /\ AfterIssue(Engine).RegisterStatus[0] = Committed
    /\ step(Engine).Registers[0] = Registers[0]

\* an instruction with destination field 0 has been issued and has written back
C12_Witness ==
    \E k \in 1 .. Len(IssuedTracker) :
        /\ IssuedTracker[k].Instruction.opcode \in {LOAD, ADD, SUB, NOR, MUL}
        /\ IssuedTracker[k].Instruction.rA = Some(0)
        /\ IssuedTracker[k].clock \in hWrittenBack

\* the two's-complement value of the low `bits` bits of w
Signed(w, bits) ==
    IF (w % (2 ^ bits)) >= 2 ^ (bits - 1) THEN (w % (2 ^ bits)) - 2 ^ bits
    ELSE w % (2 ^ bits)

\* an instruction has been encoded and the word decoded again
RoundTripDone ==
    /\ cInstr # Null /\ cWord # Null /\ cDecoded # Null
    /\ cInstr[1] \in ValidInstructions

\* C13: decode(encode(i)) has the opcode and the field values of i, for every
\* valid instruction i
C13_RoundTrip == RoundTripDone => cDecoded[1] = cInstr[1]

\* the word the layout prescribes for instruction i
Layout(i) ==
    i.opcode * 4096
    + (IF i.opcode = CALL THEN (i.label[1] % 128)
       ELSE IF i.opcode \in MemOpcodes
            THEN i.rA[1] * 512 + i.rB[1] * 64 + (i.offset[1] % 32)
       ELSE IF i.opcode \in AluOpcodes
            THEN i.rA[1] * 512 + i.rB[1] * 64 + i.rC[1] * 8
       ELSE 0)

C15_DecodeTotal ==
    (call.op = "decode" /\ cInstr = Null) =>
        /\ thrown = FALSE
        /\ cDecoded # Null
        /\ LET d == cDecoded[1]
               w == cWord[1]
           IN  /\ d.opcode = w \div 4096
               /\ \A f \in {"rA", "rB", "rC"} : d[f] # Null => d[f][1] \in Regs
               /\ d.opcode \in MemOpcodes =>
                     /\ d.offset = Some(Signed(w, 5))
                     /\ d.offset[1] \in Offsets
                     /\ d.rA = Some((w \div 512) % 8)
                     /\ d.rB = Some((w \div 64) % 8)
               /\ d.opcode = CALL =>
                     /\ d.label = Some(Signed(w, 7))
                     /\ d.label[1] \in Labels

\* a CALL word with a negative label has been decoded
C15_Witness ==
    /\ call.op = "decode" /\ cInstr = Null
    /\ cDecoded # Null
    /\ cDecoded[1].opcode = CALL
    /\ cDecoded[1].label = Some(-64)

\* the value v is outside the range of field f
OutOfRange(f, v) ==
    IF f \in {"rA", "rB", "rC"} THEN v \notin Regs
    ELSE IF f = "offset" THEN v \notin Offsets ELSE v \notin Labels

\* C17: the constructor and the setters throw exactly on a register outside
\* 0..7, an offset outside -16..15 or a label outside -64..63, and a setter
\* that throws leaves the instruction as it was
C17_FieldValidation ==
    [][ /\ call'.op \in Fields =>
              /\ thrown' = OutOfRange(call'.op, call'.address)
              /\ thrown' => cInstr' = cInstr
        /\ call'.op = "new" =>
              /\ thrown' = (\E f \in Fields :
                               /\ call'.arg[1][f] # Null
                               /\ OutOfRange(f, call'.arg[1][f][1]))
              /\ thrown' => cInstr' = Null ]_vars

\* a setter has thrown on the value next to its range
C17_Witness ==
    /\ call.op = "rA" /\ call.address = 8
    /\ thrown

SetupOps == {"addStartAddress", "addInstruction", "addInstructions", "addData"}

\* the call c names an address, or a range of addresses, not inside memory
OutsideMemory(c) ==
    \E x \in c.address .. c.address + c.length - 1 : x < 0 \/ x >= MemoryLength

\* C16: a set-up method called with an address or an address range not inside
\* 0..65535 throws and leaves Memory, PC and the instruction list as they were
C16_AddressValidation ==
    [][ (call'.op \in SetupOps /\ call'.n = call.n + 1 /\ OutsideMemory(call')) =>
            /\ thrown'
            /\ Memory' = Memory
            /\ PC' = PC
            /\ Instructions' = Instructions ]_vars

\* C18: a BEQ completing as taken squashes exactly the busy stations whose
\* instruction was issued after it
C18_SquashScope ==
    \A i \in Stations :
        CompletesTaken(i) =>
            LET pre == BeforeExec(i)
                post == AfterExec(i)
            IN  \A j \in Stations \ {i} :
                    pre.RS[j].busy =>
                        (post.RS[j].busy = FALSE <=> pre.hIssueOf[j] > pre.hIssueOf[i])

\* C19: branchPending is true exactly when some BEQ station is busy
C19_BranchPendingIffBusy ==
    isBranchPending <=> (\E i \in Stations : RS[i].unit = BEQ /\ RS[i].busy)

\* C20: jumpPending is true exactly when a CALL/RET station is busy
C20_JumpPendingIffBusy ==
    isJumpPending <=> (\E i \in Stations : RS[i].unit = CALL /\ RS[i].busy)

\* station i is a producer eligible for writeback in engine e
Eligible(e, i) ==
    /\ e.RS[i].unit \in Producers
    /\ e.RS[i].busy
    /\ e.RS[i].result # Null
    /\ e.RS[i].cycles_passed > e.RS[i].cycles_needed
    /\ e.isBranchPending = FALSE
    /\ e.CDB = Null

\* the stations the Writeback phase of the coming step releases
Broadcasters ==
    LET e == AfterExecute(Engine)
        w == WriteBack(e)
    IN  {i \in Stations : e.RS[i].busy /\ ~w.RS[i].busy}

\* C21: when two or more producers are eligible for writeback in a step, the
\* one that broadcasts holds the instruction issued earliest among them
C21_OldestWritesBack ==
    LET e == AfterExecute(Engine)
        el == {i \in Stations : Eligible(e, i)}
    IN  Cardinality(el) >= 2 =>
            \A i \in Broadcasters : \A j \in el : e.hIssueOf[i] <= e.hIssueOf[j]

\* station rs as the broadcast of value v by the station named name leaves it
Captured(rs, name, v) ==
    [rs EXCEPT !.Vj = IF rs.Qj = name THEN Some(v) ELSE @,
               !.Qj = IF rs.Qj = name THEN NullTag ELSE @,
               !.Vk = IF rs.Qk = name THEN Some(v) ELSE @,
               !.Qk = IF rs.Qk = name THEN NullTag ELSE @]

\* station rs with busy off and every field of an instruction cleared
Cleared(rs) ==
    /\ rs.busy = FALSE /\ rs.result = Null /\ rs.Operation = NullTag
    /\ rs.instruction = Null /\ rs.PC_Original = Null /\ rs.A = Null
    /\ rs.Vj = Null /\ rs.Vk = Null /\ rs.Qj = NullTag /\ rs.Qk = NullTag
    /\ rs.cycles_passed = 0

\* C22: when station S broadcasts v, every register whose status names S takes
\* v (register 0 excepted) and becomes committed, every Qj or Qk naming S is
\* replaced by v, S is released with its fields cleared, and the Writeback
\* phase changes no other register, status entry, station or memory word
C22_WriteBackEffect ==
    LET e == AfterExecute(Engine)
        w == AfterWriteBack(Engine)
    IN  /\ w.Memory = e.Memory
        /\ Broadcasters = {} =>
              /\ w.Registers = e.Registers
              /\ w.RegisterStatus = e.RegisterStatus
              /\ w.RS = e.RS
        /\ \A S \in Broadcasters :
              LET name == e.RS[S].name
                  v == e.RS[S].result[1]
              IN  /\ \A r \in Regs :
                        IF e.RegisterStatus[r] = name
                        THEN /\ w.Registers[r] = IF r = 0 THEN 0 ELSE Uint16(v)
                             /\ w.RegisterStatus[r] = Committed
                        ELSE /\ w.Registers[r] = e.Registers[r]
                             /\ w.RegisterStatus[r] = e.RegisterStatus[r]
                  /\ \A j \in Stations \ {S} :
                        w.RS[j] = Captured(e.RS[j], name, v)
                  /\ Cleared(w.RS[S])

\* the STORE in station i writes memory in the coming step
StoreWrites(i) ==
    /\ BeforeExec(i).RS[i].unit = STORE
    /\ BeforeExec(i).RS[i].busy
    /\ ~AfterExec(i).RS[i].busy

\* in engine t, station j holds a LOAD that has not read or a STORE, issued
\* before the instruction of station i and with the effective address of i
OlderPending(t, j, i) ==
    /\ j # i
    /\ t.RS[j].busy
    /\ \/ t.RS[j].unit = LOAD /\ t.RS[j].result = Null
       \/ t.RS[j].unit = STORE
    /\ t.hIssueOf[j] < t.hIssueOf[i]
    /\ t.RS[j].Qj = NullTag
    /\ EffectiveAddress(t.RS[j]) = EffectiveAddress(t.RS[i])

\* the STORE in station i reaches its latency in the coming step with no
\* branch pending
StoreCompletes(i) ==
    LET el == BeforeExec(i).RS[i]
    IN  /\ el.unit = STORE /\ el.busy
        /\ el.cycles_passed = el.cycles_needed
        /\ BeforeExec(i).isBranchPending = FALSE

\* C23: a STORE to effective address X does not write Memory[X] while an older
\* LOAD from X has not read or an older STORE to X has not written; a STORE
\* completing with no such older operation writes Memory[X] = Vk and releases
\* its station in that step
C23_StoreOrdering ==
    \A i \in Stations :
        LET pre == BeforeExec(i)
            post == AfterExec(i)
            X == EffectiveAddress(pre.RS[i])
        IN  /\ (StoreWrites(i) /\ post.Memory # pre.Memory) =>
                  \A j \in Stations : ~OlderPending(pre, j, i)
            /\ (StoreCompletes(i) /\ MemInRange(X)
                  /\ \A j \in Stations : ~OlderPending(pre, j, i)) =>
                  /\ MemGet(post.Memory, X) = Uint16(Num(pre.RS[i].Vk))
                  /\ ~post.RS[i].busy

\* the LOAD or STORE in station i reads or writes memory in the coming step
MemoryAccess(i) ==
    /\ BeforeExec(i).RS[i].unit \in {LOAD, STORE}
    /\ Len(AfterExec(i).ExecutedTracker) > Len(BeforeExec(i).ExecutedTracker)

\* the address station i uses for the access of the coming step
AccessAddress(i) == Num(AddressPhase(BeforeExec(i), i).RS[i].A)

\* C24: at the moment a LOAD or STORE reads or writes memory, its A is the
\* value of its base register plus its offset
C24_EffectiveAddress ==
    \A i \in Stations :
        MemoryAccess(i) => AccessAddress(i) = EffectiveAddress(BeforeExec(i).RS[i])

\* nothing is left to do in engine t: no station is busy, no branch or jump
\* is pending and the word at PC is zero
Quiescent(t) ==
    /\ \A i \in 1 .. Len(t.RS) : t.RS[i].busy = FALSE
    /\ t.isBranchPending = FALSE /\ t.isJumpPending = FALSE
    /\ MemGet(t.Memory, t.PC) = 0

\* C25: two engines with the same stations added in a different order and the
\* same program, registers and memory have the same registers and memory once
\* both are quiescent
C25_StationOrder ==
    (Quiescent(Engine) /\ Quiescent(other)) =>
        /\ Registers = other.Registers
        /\ Memory = other.Memory

\* the program holds no BEQ, CALL or RET
NoControlFlow ==
    \A k \in 1 .. Len(Instructions) :
        Instructions[k].opcode \in {LOAD, STORE, ADD, SUB, NOR, MUL}

\* no station is busy, every Register-Status entry is committed, and every
\* issued instruction (the k-th one was fetched at address k - 1) has an entry
\* in the Writeback tracker
Drained ==
    /\ NoBusy
    /\ \A r \in Regs : RegisterStatus[r] = Committed
    /\ Len(IssuedTracker) = Len(Instructions)
    /\ \A k \in 1 .. Len(IssuedTracker) :
          \E n \in 1 .. Len(WriteBackTracker) :
              WriteBackTracker[n].RS.PC_Original = Some(k - 1)

\* C26: a program without BEQ, CALL and RET eventually reaches a state with no
\* busy station, every Register-Status entry committed and a Writeback entry
\* for every issued instruction
C26_Drain == NoControlFlow => <>Drained

\* station i holds a BEQ that waits for a producer
BeqWaiting(i) ==
    /\ RS[i].unit = BEQ /\ RS[i].busy
    /\ (RS[i].Qj # NullTag \/ RS[i].Qk # NullTag)

BeqWaits == \E i \in Stations : BeqWaiting(i)

\* no BEQ waits for a producer, no BEQ station is busy and no branch is pending
BeqResolved ==
    /\ \A i \in Stations : RS[i].unit = BEQ => ~RS[i].busy
    /\ isBranchPending = FALSE

\* C27: a BEQ issued with Qj or Qk set eventually receives the result of its
\* producer and completes, and branchPending becomes false
C27_BeqResolves == BeqWaits ~> BeqResolved

\* station i holds a CALL or RET that completes when the execute loop
\* reaches it in engine pre
JumpCompletes(pre, i) ==
    LET el == pre.RS[i]
    IN  /\ el.unit = CALL /\ el.busy
        /\ el.cycles_passed = el.cycles_needed
        /\ pre.isBranchPending = FALSE

\* a RET issued by the coming step captures register 1 in A
RetCapturesLink ==
    LET a == AfterIncrement(Engine)
        b == AfterIssue(Engine)
    IN  (Len(b.IssuedTracker) > Len(a.IssuedTracker)
           /\ b.IssuedTracker[Len(b.IssuedTracker)].Instruction.opcode = RET) =>
          b.RS[b.IssuedTracker[Len(b.IssuedTracker)].RS].A = Some(a.Registers[1])

\* C28: a completing CALL sets Registers[1] to originalPC + 1 and PC to its
\* label, a completing RET sets PC to the register 1 value captured in A at
\* issue; both clear jumpPending, release the station, broadcast nothing and
\* record a Writeback entry at the cycle of their Executed entry
C28_CallRetCompletion ==
    /\ RetCapturesLink
    /\ \A i \in Stations :
          (RS[i].unit = CALL /\ JumpCompletes(BeforeExec(i), i)) =>
              LET pre == BeforeExec(i)
                  post == ExecOne(pre, i)
                  el == pre.RS[i]
                  wb == post.WriteBackTracker[Len(post.WriteBackTracker)]
                  ex == post.ExecutedTracker[Len(post.ExecutedTracker)]
              IN  /\ el.Operation = "CALL" =>
                        /\ post.Registers[1] = el.PC_Original[1] + 1
                        /\ \A r \in Regs \ {1} : post.Registers[r] = pre.Registers[r]
                        /\ post.PC = el.instruction[1].label[1]
                  /\ el.Operation = "RET" =>
                        /\ post.PC = el.A[1]
                        /\ post.Registers = pre.Registers
                  /\ post.isJumpPending = FALSE
                  /\ Cleared(post.RS[i])
                  /\ post.CDB = Null
                  /\ post.hBroadcasts = pre.hBroadcasts
                  /\ post.RegisterStatus = pre.RegisterStatus
                  /\ Len(post.WriteBackTracker) = Len(pre.WriteBackTracker) + 1
                  /\ Len(post.ExecutedTracker) = Len(pre.ExecutedTracker) + 1
                  /\ wb.clock = pre.clock /\ ex.clock = pre.clock
                  /\ wb.RS.name = el.name /\ ex.RS = i
                  /\ wb.Instruction = el.instruction[1]

\* a CALL and then a RET have completed: the link register holds the address
\* after the CALL and the engine fetches from it
C28_Witness ==
    /\ \E n \in 1 .. Len(WriteBackTracker) :
          /\ WriteBackTracker[n].Instruction.opcode = CALL
          /\ \E k \in n + 1 .. Len(WriteBackTracker) :
                /\ WriteBackTracker[k].Instruction.opcode = RET
                /\ WriteBackTracker[k].clock = clock - 1
    /\ isJumpPending = FALSE
    /\ Registers[1] = 1
    /\ PC = 1

\* kinds of station that produce no register value
SelfReleasing == {STORE, BEQ, CALL}

\* the STORE, BEQ, CALL or RET in station i completes when the execute loop
\* takes the engine from pre to post
SelfCompletes(pre, post, i) ==
    /\ pre.RS[i].unit \in SelfReleasing
    /\ Len(post.ExecutedTracker) > Len(pre.ExecutedTracker)

\* C29: Writeback releases only LOAD, ADD, NOR and MUL stations; a STORE, BEQ,
\* CALL or RET station is released by the Execute phase of the step in which
\* it completes, puts nothing on the CDB, changes no Register-Status entry and
\* gets a Writeback entry with the cycle of its Executed entry
C29_SelfRelease ==
    /\ \A i \in Broadcasters : RS[i].unit \in {LOAD, ADD, NOR, MUL}
    /\ \A i \in Stations :
          RS[i].unit \in SelfReleasing =>
              LET pre == BeforeExec(i)
                  post == ExecOne(pre, i)
              IN  /\ RS[i].result = Null
                  /\ post.RegisterStatus = pre.RegisterStatus
                  /\ post.CDB = Null /\ post.hBroadcasts = pre.hBroadcasts
                  /\ (pre.RS[i].busy /\ ~post.RS[i].busy) => SelfCompletes(pre, post, i)
                  /\ SelfCompletes(pre, post, i) =>
                        /\ pre.RS[i].busy /\ ~post.RS[i].busy
                        /\ Len(post.WriteBackTracker) = Len(pre.WriteBackTracker) + 1
                        /\ post.WriteBackTracker[Len(post.WriteBackTracker)].clock
                             = post.ExecutedTracker[Len(post.ExecutedTracker)].clock
                        /\ post.WriteBackTracker[Len(post.WriteBackTracker)].RS.name
                             = pre.RS[i].name
                        /\ post.ExecutedTracker[Len(post.ExecutedTracker)].RS = i

\* a STORE and a BEQ have completed and a producer has broadcast
C29_Witness ==
    /\ \E n \in 1 .. Len(WriteBackTracker) : WriteBackTracker[n].RS.unit = STORE
    /\ \E n \in 1 .. Len(WriteBackTracker) : WriteBackTracker[n].RS.unit = BEQ
    /\ \E n \in 1 .. Len(WriteBackTracker) :
          WriteBackTracker[n].RS.unit \in {LOAD, ADD, NOR, MUL}
    /\ NoBusy

\* unit of the station the instruction word w needs, -1 when it needs none
UnitOf(w) ==
    LET op == decode(w).opcode
    IN  IF op \in {LOAD, STORE, BEQ} THEN op
        ELSE IF op \in {CALL, RET} THEN CALL
        ELSE IF op \in {ADD, SUB, NOR, MUL} THEN AluUnit(op)
        ELSE -1

\* Issue in engine a fetches the zero word
FetchesZero(a) ==
    /\ a.isJumpPending = FALSE
    /\ MemInRange(a.PC) /\ MemGet(a.Memory, a.PC) = 0

\* Issue in engine a fetches an instruction and finds no free station for it
NoFreeStation(a) ==
    /\ a.isJumpPending = FALSE
    /\ MemInRange(a.PC) /\ MemGet(a.Memory, a.PC) # 0
    /\ FirstFree(a, UnitOf(MemGet(a.Memory, a.PC))) = 0

\* Issue takes engine a to engine b without any change
IssueNoOp(a, b) ==
    /\ b.PC = a.PC /\ b.RS = a.RS /\ b.RegisterStatus = a.RegisterStatus
    /\ b.isBranchPending = a.isBranchPending /\ b.isJumpPending = a.isJumpPending
    /\ b.IssuedAfterBranch = a.IssuedAfterBranch
    /\ b.IssuedTracker = a.IssuedTracker

\* C30: an Issue that fetches the zero word or finds no free station changes
\* nothing; the instruction that found no free station is issued in the next
\* step whose Issue phase finds a matching station free
C30_StalledIssue ==
    LET a == AfterIncrement(Engine)
        b == Issue(a)
        w == MemGet(a.Memory, a.PC)
        a2 == AfterIncrement(step(Engine))
        b2 == Issue(a2)
    IN  /\ (FetchesZero(a) \/ NoFreeStation(a)) => IssueNoOp(a, b)
        /\ (NoFreeStation(a) /\ FirstFree(a2, UnitOf(w)) # 0) =>
              /\ Len(b2.IssuedTracker) = Len(a2.IssuedTracker) + 1
              /\ b2.IssuedTracker[Len(b2.IssuedTracker)].Instruction = decode(w)
              /\ b2.RS[b2.IssuedTracker[Len(b2.IssuedTracker)].RS].PC_Original
                   = Some(a.PC)

\* stations whose contents the Issue phase taking engine a to engine b changed
Allocated(a, b) == {i \in 1 .. Len(a.RS) : b.RS[i] # a.RS[i]}

\* station i of engine a is free, of unit u, and no station before it is
FirstFreeOfKind(a, i, u) ==
    /\ a.RS[i].busy = FALSE /\ a.RS[i].unit = u
    /\ \A j \in 1 .. (i - 1) : ~(a.RS[j].busy = FALSE /\ a.RS[j].unit = u)

\* C31: Issue places the fetched instruction in the first non-busy station,
\* in configuration order, of the kind of its opcode (ADD and SUB the ADD
\* kind, CALL and RET the CALL kind); it never allocates a busy station or a
\* station of another kind, and it issues at most one instruction per step
C31_Allocation ==
    LET a == AfterIncrement(Engine)
        b == Issue(a)
        w == MemGet(a.Memory, a.PC)
        instr == decode(w)
        kind == IF instr.opcode \in {ADD, SUB} THEN ADD
                ELSE IF instr.opcode \in {CALL, RET} THEN CALL
                ELSE instr.opcode
        alloc == Allocated(a, b)
    IN  /\ Cardinality(alloc) <= 1
        /\ Len(b.IssuedTracker) = Len(a.IssuedTracker) + Cardinality(alloc)
        /\ \A i \in alloc :
              /\ FirstFreeOfKind(a, i, kind)
              /\ b.RS[i].busy
              /\ b.RS[i].instruction = Some(instr)
              /\ b.IssuedTracker[Len(b.IssuedTracker)].RS = i
        /\ (/\ a.isJumpPending = FALSE /\ MemInRange(a.PC) /\ w # 0
            /\ \E i \in Stations : a.RS[i].busy = FALSE /\ a.RS[i].unit = kind)
              => alloc # {}

\* a SUB sits in the second station of the ADD kind, allocated while the
\* first one was busy with an ADD issued earlier
C31_Witness ==
    \E i \in Stations : \E j \in Stations :
        /\ j < i /\ RS[j].unit = ADD /\ RS[i].unit = ADD
        /\ RS[j].busy /\ RS[i].busy
        /\ RS[j].Operation = "ADD" /\ RS[i].Operation = "SUB"
        /\ hIssueOf[j] < hIssueOf[i]

\* station i of engine pre holds a LOAD or STORE whose base plus offset lies
\* outside the memory, and the execute loop performs its memory access
OutOfBoundsAccess(pre, i) ==
    LET el == pre.RS[i]
    IN  /\ el.unit \in {LOAD, STORE} /\ el.busy /\ el.Vj # Null
        /\ ~MemInRange(EffectiveAddress(el))
        /\ Len(ExecOne(pre, i).ExecutedTracker) > Len(pre.ExecutedTracker)

\* C32: a LOAD or STORE whose effective address falls outside 0..65535 fails
\* with an error raised to the caller of step(); it does not complete silently
C32_BoundsChecked ==
    \A i \in Stations :
        (RS[i].unit \in {LOAD, STORE} /\ OutOfBoundsAccess(BeforeExec(i), i))
            => stepThrows(Engine)

\* the instruction in station i was issued after a BEQ that was still pending
\* and that has resolved since: the Executed tracker holds the BEQ at the
\* issue clock of station i or later, the Issued tracker holds it earlier
IssuedUnderResolvedBeq(i) ==
    \E k \in 1 .. Len(ExecutedTracker) :
        LET e == ExecutedTracker[k]
        IN  /\ e.Instruction.opcode = BEQ
            /\ e.clock >= hIssueOf[i]
            /\ \E j \in 1 .. Len(IssuedTracker) :
                  /\ IssuedTracker[j].RS = e.RS
                  /\ IssuedTracker[j].Instruction.opcode = BEQ
                  /\ IssuedTracker[j].clock < hIssueOf[i]
                  /\ \A n \in 1 .. Len(ExecutedTracker) :
                        (ExecutedTracker[n].RS = e.RS
                           /\ ExecutedTracker[n].clock < e.clock)
                        => ExecutedTracker[n].clock < IssuedTracker[j].clock

\* some station still holds an instruction issued behind a BEQ that resolved
\* not taken (no BEQ of the run was taken)
SpeculativeInFlight ==
    /\ branchMispredictions = 0
    /\ \E i \in Stations : RS[i].busy /\ IssuedUnderResolvedBeq(i)

SpeculativeDone ==
    \A i \in Stations : ~(RS[i].busy /\ IssuedUnderResolvedBeq(i))

\* C33: after a BEQ resolves not taken, every instruction issued while it was
\* pending eventually completes and leaves its station, also when its cycle
\* counter reached cyclesNeeded while the branch was pending
C33_SpeculativeCompletes == SpeculativeInFlight ~> SpeculativeDone

\* station i of engine pre holds a BEQ that completes as not taken when the
\* execute loop reaches it
CompletesNotTaken(pre, i) ==
    LET el == pre.RS[i]
    IN  /\ el.unit = BEQ /\ el.busy
        /\ el.cycles_passed = el.cycles_needed
        /\ el.Vj # el.Vk

\* the station of the last entry of the Issued tracker still holds the
\* instruction of that entry
LastIssuedInStation(pre) ==
    /\ Len(pre.IssuedTracker) > 0
    /\ LET last == pre.IssuedTracker[Len(pre.IssuedTracker)]
       IN  /\ pre.RS[last.RS].busy
           /\ pre.hIssueOf[last.RS] = last.clock

\* address of the most recently issued instruction
LastIssuedAddress(pre) ==
    pre.RS[pre.IssuedTracker[Len(pre.IssuedTracker)].RS].PC_Original[1]

\* C34: after a BEQ resolves not taken, PC is the address following the most
\* recently issued instruction, so that the instructions issued behind the
\* branch are not fetched and issued again
C34_NoReissue ==
    \A i \in Stations :
        (RS[i].unit = BEQ /\ CompletesNotTaken(BeforeExec(i), i)) =>
            LET pre == BeforeExec(i)
                post == ExecOne(pre, i)
            IN  LastIssuedInStation(pre) =>
                    post.PC = LastIssuedAddress(pre) + 1

\* Register-Status entry r names a busy station that holds an instruction
\* whose destination is register r
NamesItsWriter(r) ==
    \E i \in Stations :
        /\ RS[i].name = RegisterStatus[r]
        /\ RS[i].busy
        /\ RS[i].instruction # Null
        /\ RS[i].unit \in Producers
        /\ RS[i].instruction[1].rA = Some(r)

\* C35: every Register-Status entry other than the committed sentinel names a
\* busy station whose instruction writes that register, and no station is
\* named by two entries, also after a taken branch squashed stations
C35_RegisterStatusSound ==
    /\ \A r \in Regs : RegisterStatus[r] # Committed => NamesItsWriter(r)
    /\ \A r \in Regs : \A q \in Regs :
          (r # q /\ RegisterStatus[r] # Committed) =>
              RegisterStatus[r] # RegisterStatus[q]

\* station rs is as the constructor of ReservationStation left it
Pristine(rs) ==
    rs = ReservationStation(rs.name, rs.unit, rs.cycles_needed,
                            rs.cycles_needed_to_compute_address,
                            rs.cycles_needed_to_read_write_from_memory)

\* C36: every non-busy station is in its pristine state with cyclesPassed = 0,
\* whether it was released at Execute, released at Writeback or squashed
C36_FreeStationPristine ==
    \A i \in Stations :
        RS[i].busy = FALSE => (RS[i].cycles_passed = 0 /\ Pristine(RS[i]))

\* C37: the value a waiting station receives over the CDB into Vj or Vk is the
\* 16-bit value committed to the register file for the same result (the result
\* modulo 2^16), also for a SUB result below 0
C37_ForwardedValue ==
    LET e == AfterExecute(Engine)
        w == WriteBack(e)
    IN  \A S \in {i \in Stations : e.RS[i].busy /\ ~w.RS[i].busy} :
            \A j \in Stations \ {S} :
                /\ e.RS[j].Qj = e.RS[S].name =>
                      w.RS[j].Vj = Some(Uint16(e.RS[S].result[1]))
                /\ e.RS[j].Qk = e.RS[S].name =>
                      w.RS[j].Vk = Some(Uint16(e.RS[S].result[1]))

\* registers and memory after instruction instr alone has run to completion
\* on registers and memory s: the value the execute branch of its opcode
\* computes from the register values, stored as the typed arrays store it
SeqOne(s, instr) ==
    LET rA == Num(instr.rA)
        vB == s.Registers[Num(instr.rB)]
        set(v) == IF rA = 0 THEN s
                  ELSE [s EXCEPT !.Registers[rA] = Uint16(v)]
    IN  IF instr.opcode = LOAD
        THEN set(MemGet(s.Memory, vB + Num(instr.offset)))
        ELSE IF instr.opcode = STORE
        THEN [s EXCEPT !.Memory = MemSet(@, vB + Num(instr.offset), s.Registers[rA])]
        ELSE IF instr.opcode = ADD THEN set(vB + s.Registers[Num(instr.rC)])
        ELSE IF instr.opcode = SUB THEN set(vB - s.Registers[Num(instr.rC)])
        ELSE IF instr.opcode = NOR
        THEN set(BitNot(BitOr(vB, s.Registers[Num(instr.rC)])))
        ELSE IF instr.opcode = MUL THEN set(vB * s.Registers[Num(instr.rC)])
        ELSE s

RECURSIVE SeqUpTo(_, _, _)
\* the first n instructions of program run one at a time in program order
SeqUpTo(s, program, n) ==
    IF n = 0 THEN s ELSE SeqOne(SeqUpTo(s, program, n - 1), program[n])

\* registers and memory the engine was started with, the program at address 0
Started ==
    LET t1 == [Constructor EXCEPT !.Registers = [r \in Regs |-> ScriptRegisters[r + 1]]]
        t2 == addInstructions(addData(t1, ScriptData, ScriptDataAddress), Instructions, 0)
    IN  [Registers |-> t2.Registers, Memory |-> t2.Memory]

Sequential == SeqUpTo(Started, Instructions, Len(Instructions))

\* C38: for a program of LOAD, STORE, ADD, SUB, NOR and MUL only, the registers
\* and the memory of the drained engine are those obtained by executing the
\* instructions one at a time in program order with 16-bit arithmetic
C38_SequentialEquivalence ==
    (NoControlFlow /\ clock > 0 /\ Quiescent(Engine)) =>
        /\ Registers = Sequential.Registers
        /\ Memory = Sequential.Memory

\* station i holds a LOAD, ADD, SUB, NOR or MUL whose result has been
\* computed, and no branch is pending
ResultComputed(i) ==
    /\ i \in Stations
    /\ RS[i].busy /\ RS[i].unit \in Producers /\ RS[i].result # Null
    /\ isBranchPending = FALSE

StationReleased(i) == i \in Stations /\ RS[i].busy = FALSE

\* indexes of the stations of the largest configuration
VariantSlots == 1 .. Len(VariantAllStations(1, 1, 1))

\* C39: in the engine of components/tomasulo_engine.ts, a LOAD, ADD, SUB, NOR
\* or MUL station whose result has been computed, with no branch pending, is
\* eventually broadcast by WriteBack and released
C39_VariantWritesBack ==
    \A i \in VariantSlots : ResultComputed(i) ~> StationReleased(i)

\* the last Writeback-tracker entry of engine post describes the instruction
\* station i holds in engine pre
DescribesHeld(pre, post, i) ==
    LET entry == post.WriteBackTracker[Len(post.WriteBackTracker)]
    IN  /\ Len(post.WriteBackTracker) = Len(pre.WriteBackTracker) + 1
        /\ entry.Instruction = pre.RS[i].instruction[1]
        /\ entry.RS.PC_Original = pre.RS[i].PC_Original
        /\ entry.RS.name = pre.RS[i].name

\* C40: each Writeback-tracker entry carries the instruction snapshot and the
\* originalPC of the instruction its station held when it was released, also
\* when the station has served several instructions
C40_WritebackEntry ==
    LET e == AfterExecute(Engine)
        w == WriteBack(e)
    IN  /\ \A i \in Stations :
              (e.RS[i].busy /\ ~w.RS[i].busy) => DescribesHeld(e, w, i)
        /\ \A i \in Stations :
              LET pre == BeforeExec(i)
                  post == ExecOne(pre, i)
              IN  (pre.RS[i].unit \in SelfReleasing
                     /\ Len(post.WriteBackTracker) > Len(pre.WriteBackTracker))
                  => DescribesHeld(pre, post, i)

====
